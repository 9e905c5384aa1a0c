---------------------------- MODULE MCConnection -----------------------------
(* Instances of Connection for TLC. *)
EXTENDS Connection

CONSTANTS alice, bob

Message(method, path, login, inUrl, asks) ==
  [line |-> TRUE, method |-> method, path |-> path, login |-> login,
   body |-> IF method \in {"POST", "PUT"} THEN "length" ELSE "none",
   query |-> inUrl, keep |-> TRUE, asks |-> asks]

Bodied(message, how) == [message EXCEPT !.body = how]

\* Two users, every method and path, each way a message can be bad and each way
\* a body can come with it.
MCMessages ==
  {Message(method, "api", alice, inUrl, "command") :
     method \in {"GET", "POST"}, inUrl \in BOOLEAN}
  \cup {Message(method, "api", None, method = "GET", "command") : method \in {"GET", "POST"}}
  \cup {Message("POST", "api", bob, FALSE, asks) : asks \in {"command", "broken"}}
  \cup {Message("HEAD", path, alice, FALSE, "nothing") : path \in {"api", "asset", "off"}}
  \cup {Message("GET", path, bob, FALSE, "nothing") : path \in {"asset", "unknown"}}
  \cup {Message("PUT", "api", alice, FALSE, "command"),
        Message("POST", "off", Wrong, FALSE, "command"),
        Message("HEAD", "api", Wrong, FALSE, "nothing"),
        Bodied(Message("GET", "api", alice, TRUE, "command"), "length"),
        Bodied(Message("HEAD", "asset", bob, FALSE, "nothing"), "chunked"),
        Bodied(Message("POST", "api", alice, TRUE, "command"), "chunked"),
        Bodied(Message("POST", "api", bob, FALSE, "command"), "none"),
        Bodied(Message("POST", "api", alice, FALSE, "command"), "bad length"),
        [Message("POST", "api", bob, TRUE, "command") EXCEPT !.keep = FALSE],
        [Message("HEAD", "api", None, FALSE, "nothing") EXCEPT !.line = FALSE]}
=============================================================================
