------------------------------ MODULE Connection -------------------------------
(***************************************************************************)
(* One client connection of an HTTP server: the thread that serves its     *)
(* keep-alive requests one after another on one handler object and one     *)
(* database connection.                                                    *)
(*                                                                         *)
(* Source: powergslb/server/http/handler/request.py, admin.py (routing,    *)
(* Basic Auth, content), powerdns.py (routing, client data) and            *)
(* database.py (_open_cursor).  From the standard library, as request.py   *)
(* uses it: handle_one_request reads a request line and calls do_METHOD;   *)
(* send_error answers with "Connection: close"; a socket timeout in it     *)
(* ends the connection.                                                    *)
(*                                                                         *)
(* A message is what the client sends: a head and, with any method, a      *)
(* body.  Messages have the numbers in which they are sent; what the       *)
(* handler keeps of a message (its headers, body, query, user) is its      *)
(* number.                                                                 *)
(***************************************************************************)
EXTENDS Naturals, Sequences

CONSTANTS
  Messages,      \* what the client may send
  MaxMessages,   \* bound: messages on the connection
  Users,         \* users whose credentials are valid
  Wrong,         \* credentials that are not
  None           \* not a number of a message, not a user

Methods == {"GET", "HEAD", "POST", "PUT"}

\* line: FALSE when the request line does not parse.  path: the API of the role
\* (w2ui; lookup and getAllDomains), a static asset, another path under the
\* route, or one off the route.  login: the user of valid credentials, Wrong,
\* or None without any.  body: "none" (no Content-Length, or 0), the "length" it
\* has, a "bad length" that is no int within 0..max_body_size, or "chunked"
\* without a length.  query: a query string is there.  asks: what the query
\* string, or else the body, parses to.
MessageSpace ==
  [line : BOOLEAN, method : Methods, path : {"api", "asset", "unknown", "off"},
   login : Users \cup {Wrong, None}, body : {"none", "length", "bad length", "chunked"},
   query : BOOLEAN, keep : BOOLEAN, asks : {"command", "nothing", "broken"}]

ASSUME ConnectionAssumption ==
  /\ Messages \subseteq MessageSpace
  /\ MaxMessages \in Nat /\ None \notin Nat \cup Users /\ Wrong \notin Users

VARIABLES
  role,      \* "admin" or "dns": the handler class of the port
  sent,      \* the messages sent so far
  wire,      \* what the server has not read: <<"head", i>> and <<"body", i>>
  eof,       \* the client sends no more
  pc,        \* where the thread is
  read,      \* number of messages the server read
  headers,   \* the message self.headers and self.command are of
  body,      \* the message self.body is of, or None
  query,     \* the message self.query is of, or None
  user,      \* self.user, or for "dns" the message self.context is of
  closing,   \* self.close_connection
  db,        \* the database connection: "none", "open", "lost", "closed"
  replies,   \* history: replies as [to, code]
  ran        \* history: commands and lookups run, as [for, asked, as]

client == <<sent, wire, eof>>
request == <<headers, body, query, user>>
history == <<replies, ran>>
vars == <<role, sent, wire, eof, pc, read, headers, body, query, user, closing, db, replies, ran>>

Init ==
  /\ role \in {"admin", "dns"}
  /\ sent = <<>> /\ wire = <<>> /\ eof = FALSE
  /\ pc = "connect"
  /\ read = 0 /\ headers = None /\ body = None /\ query = None /\ user = None
  /\ closing = FALSE
  /\ db = "none"
  /\ replies = <<>> /\ ran = <<>>

-----------------------------------------------------------------------------
(* The client, the network and the database server. *)

HasBody(m) == m.line /\ m.body # "none"

\* The client sends a message; it does not wait for replies.
Send(m) ==
  /\ ~eof /\ Len(sent) < MaxMessages
  /\ sent' = Append(sent, m)
  /\ LET i == Len(sent) + 1
     IN wire' = wire \o (IF HasBody(m) THEN <<<<"head", i>>, <<"body", i>>>> ELSE <<<<"head", i>>>>)
  /\ UNCHANGED <<role, eof, pc, read, request, closing, db, history>>

\* The client closes its side.
Finish ==
  /\ ~eof
  /\ eof' = TRUE
  /\ UNCHANGED <<role, sent, wire, pc, read, request, closing, db, history>>

\* The database server drops the connection while it is idle.
LoseDatabase ==
  /\ db = "open"
  /\ db' = "lost"
  /\ UNCHANGED <<role, client, pc, read, request, closing, history>>

-----------------------------------------------------------------------------
(* The handler. *)

This == sent[headers]

\* send_error: an answer and "Connection: close".
SendError(code) ==
  /\ replies' = Append(replies, [to |-> headers, code |-> code])
  /\ pc' = "request"
  /\ closing' = TRUE

\* An answer that keeps the connection as it is.
SendReply(code) ==
  /\ replies' = Append(replies, [to |-> headers, code |-> code])
  /\ pc' = "request"
  /\ UNCHANGED closing

\* handle() enters: a connection of its own to the database.
Connect ==
  /\ pc = "connect"
  /\ db' = "open"
  /\ pc' = "request"
  /\ UNCHANGED <<role, client, read, request, closing, history>>

\* The database cannot be reached.  No request is parsed: nobody is answered.
ConnectFails ==
  /\ pc = "connect"
  /\ pc' = "closed"
  /\ closing' = TRUE
  /\ UNCHANGED <<role, client, read, request, db, history>>

\* The loop of handle(): close_connection ends it, and the with block closes
\* the database connection.
LoopEnds ==
  /\ pc = "request" /\ closing
  /\ db' = "closed"
  /\ pc' = "closed"
  /\ UNCHANGED <<role, client, read, request, closing, history>>

\* handle_one_request takes the next request line.  Only an HTTP/1.1 client that
\* does not ask to close keeps the connection.
ReadRequest ==
  /\ pc = "request" /\ ~closing
  /\ wire # <<>> /\ Head(wire)[1] = "head"
  /\ wire' = Tail(wire)
  /\ headers' = Head(wire)[2]
  /\ read' = read + 1
  /\ LET m == sent[Head(wire)[2]]
     IN IF m.line
        THEN /\ pc' = IF m.method = "PUT" THEN "no method" ELSE m.method
             /\ closing' = ~m.keep
        ELSE /\ pc' = "bad line"
             /\ closing' = TRUE
  /\ UNCHANGED <<role, sent, eof, body, query, user, db, history>>

\* It takes a body that was left on the wire.  A body is no request line: its
\* first line is bad, unless it has no end and the next request line, appended
\* to it, completes it, to a bad line or to one with an unknown method.
ReadStray ==
  /\ pc = "request" /\ ~closing
  /\ wire # <<>> /\ Head(wire)[1] = "body"
  /\ \/ /\ wire' = Tail(wire)
        /\ headers' = Head(wire)[2]
        /\ pc' = "bad line"
     \/ /\ Len(wire) > 1
        /\ wire' = Tail(Tail(wire))
        /\ headers' = wire[2][2]
        /\ pc' \in {"bad line", "no method"}
  /\ read' = read + 1
  /\ closing' = TRUE
  /\ UNCHANGED <<role, sent, eof, body, query, user, db, history>>

\* Fault: no idle timeout, only the end of the input.
NoRequest_Untimed ==
  /\ pc = "request" /\ ~closing
  /\ wire = <<>> /\ eof
  /\ closing' = TRUE
  /\ UNCHANGED <<role, client, pc, read, request, db, history>>

\* The end of the input, or the idle timeout; or the line that a body begins is
\* empty, or does not end in time.
NoRequest ==
  /\ pc = "request" /\ ~closing
  /\ wire # <<>> => Head(wire)[1] = "body"
  /\ closing' = TRUE
  /\ UNCHANGED <<role, client, pc, read, request, db, history>>

\* The standard library answers a bad request line and an unknown method.
Refuse ==
  /\ \/ pc = "bad line" /\ SendError(400)
     \/ pc = "no method" /\ SendError(501)
  /\ UNCHANGED <<role, client, read, request, db, ran>>

\* Fault: the body of an earlier request stays.
DoGet_KeepsBody ==
  /\ pc \in {"GET", "HEAD"}
  /\ pc' = "dispatch"
  /\ UNCHANGED <<role, client, read, request, closing, db, history>>

\* do_GET, do_HEAD: a body that came with the request stays on the wire.
DoGet ==
  /\ pc \in {"GET", "HEAD"}
  /\ body' = None
  /\ pc' = "dispatch"
  /\ UNCHANGED <<role, client, read, headers, query, user, closing, db, history>>

\* Fault: the body is left on the wire.
DoPost_Undrained ==
  /\ pc = "POST" /\ This.body # "bad length"
  /\ This.body = "length" => wire # <<>>
  /\ body' = IF This.body = "length" THEN headers ELSE None
  /\ pc' = "dispatch"
  /\ UNCHANGED <<role, client, read, headers, query, user, closing, db, history>>

\* do_POST: a body of a given length is drained before anything is decided.
\* Without a length nothing is read, and what is empty asks for nothing.
DoPost ==
  /\ pc = "POST" /\ This.body # "bad length"
  /\ IF This.body = "length"
     THEN /\ wire # <<>>
          /\ wire' = Tail(wire)
          /\ body' = Head(wire)[2]
     ELSE /\ body' = None
          /\ UNCHANGED wire
  /\ pc' = "dispatch"
  /\ UNCHANGED <<role, sent, eof, read, headers, query, user, closing, db, history>>

\* Fault: no return after the 400.
PostRefused_GoesOn ==
  /\ pc = "POST" /\ This.body = "bad length"
  /\ replies' = Append(replies, [to |-> headers, code |-> 400])
  /\ closing' = TRUE
  /\ pc' = "dispatch"
  /\ UNCHANGED <<role, client, read, request, db, ran>>

\* _read_body refuses the Content-Length.
PostRefused ==
  /\ pc = "POST" /\ This.body = "bad length"
  /\ SendError(400)
  /\ UNCHANGED <<role, client, read, request, db, ran>>

\* _handle_request: the client data and the query string are of this request;
\* a path off the route is not found.
HandleRequest ==
  /\ pc = "dispatch"
  /\ query' = IF This.query THEN headers ELSE None
  /\ user' = IF role = "dns" THEN headers ELSE user
  /\ IF This.path = "off"
     THEN SendError(404)
     ELSE /\ pc' = IF role = "dns" THEN "lookup" ELSE "authorize"
          /\ UNCHANGED <<closing, replies>>
  /\ UNCHANGED <<role, client, read, headers, body, db, ran>>

\* A statement outside a transaction: _open_cursor replaces a lost connection.
Statement == db' = "open"

\* It raises: the database is gone, for good or under the statement.
StatementFails == db' = "lost"

\* _is_authorized finds a user and the dispatch goes on.
Authorize ==
  /\ pc = "authorize" /\ This.login \notin {None, Wrong}
  /\ Statement
  /\ user' = This.login
  /\ pc' = "route"
  /\ UNCHANGED <<role, client, read, headers, body, query, closing, history>>

\* Fault: the name is kept before it is checked.
Unauthorized_Named ==
  /\ pc = "authorize" /\ This.login \in {None, Wrong}
  /\ UNCHANGED db \/ (This.login = Wrong /\ Statement)
  /\ user' = This.login
  /\ SendReply(401)
  /\ UNCHANGED <<role, client, read, headers, body, query, ran>>

\* No credentials, or wrong ones, some of which check_user has to look up:
\* _send_authenticate.  The connection stays open.
Unauthorized ==
  /\ pc = "authorize" /\ This.login \in {None, Wrong}
  /\ UNCHANGED db \/ (This.login = Wrong /\ Statement)
  /\ user' = None
  /\ SendReply(401)
  /\ UNCHANGED <<role, client, read, headers, body, query, ran>>

\* check_user raises out of the handler.
AuthorizeFails ==
  /\ pc = "authorize" /\ This.login # None
  /\ StatementFails
  /\ user' = None
  /\ pc' = "raised"
  /\ UNCHANGED <<role, client, read, headers, body, query, closing, history>>

\* AdminRequestHandler._handle_route: GET and POST reach w2ui.
Route ==
  /\ pc = "route" /\ This.path = "api" /\ This.method # "HEAD"
  /\ pc' = "content"
  /\ UNCHANGED <<role, client, read, request, closing, db, history>>

\* GET and HEAD of an asset: sent, not modified, or a directory to be asked for
\* with a slash.
RouteAsset ==
  /\ pc = "route" /\ This.path = "asset" /\ This.method # "POST"
  /\ SendReply(200) \/ SendReply(304) \/ SendReply(301)
  /\ UNCHANGED <<role, client, read, request, db, ran>>

\* Everything else is not found.
RouteMissing ==
  /\ pc = "route"
  /\ \/ This.path = "unknown"
     \/ This.path = "asset" /\ This.method = "POST"
     \/ This.path = "api" /\ This.method = "HEAD"
  /\ SendError(404)
  /\ UNCHANGED <<role, client, read, request, db, ran>>

\* _parse_query: the query string, else the body, else nothing.
Source == IF query # None THEN query ELSE body

\* What the source asks for: a QueryParserError asks for nothing.
Asks == IF Source = None THEN "nothing" ELSE sent[Source].asks

\* content(): a command runs, or it raises and the reply says so.
Command ==
  /\ pc = "content" /\ Asks = "command"
  /\ \/ Statement /\ ran' = Append(ran, [for |-> headers, asked |-> Source, as |-> user])
     \/ StatementFails /\ UNCHANGED ran
  /\ SendReply(200)
  /\ UNCHANGED <<role, client, read, request>>

\* content(): no such command.
NoCommand ==
  /\ pc = "content" /\ Asks = "nothing"
  /\ SendReply(200)
  /\ UNCHANGED <<role, client, read, request, db, ran>>

\* _parse_query raises another exception (a body that is no UTF-8, a key used
\* for a value and for a group).
ParseFails ==
  /\ pc = "content" /\ Asks = "broken"
  /\ pc' = "raised"
  /\ UNCHANGED <<role, client, read, request, closing, db, history>>

\* PowerDNSRequestHandler._handle_route: a GET is answered from the database.
Lookup ==
  /\ pc = "lookup" /\ This.method = "GET" /\ This.path = "api"
  /\ \/ /\ Statement
        /\ ran' = Append(ran, [for |-> headers, asked |-> headers, as |-> user])
        /\ SendReply(200)
     \/ /\ StatementFails
        /\ pc' = "raised"
        /\ UNCHANGED <<closing, history>>
  /\ UNCHANGED <<role, client, read, request>>

\* An unknown operation has a false result; other methods are not found.
NoLookup ==
  /\ pc = "lookup"
  /\ \/ This.method = "GET" /\ This.path # "api" /\ SendReply(200)
     \/ This.method # "GET" /\ SendError(404)
  /\ UNCHANGED <<role, client, read, request, db, ran>>

\* handle() catches it: the with block has closed the database connection.
Raised ==
  /\ pc = "raised"
  /\ db' = "closed"
  /\ closing' = TRUE
  /\ replies' = Append(replies, [to |-> headers, code |-> 500])
  /\ pc' = "closed"
  /\ UNCHANGED <<role, client, read, request, ran>>

\* The client vanished: reading or writing raises, or the rest of a body does
\* not come in time.
Vanished ==
  /\ pc \notin {"connect", "closed", "content", "lookup", "authorize"}
  /\ db' = "closed"
  /\ closing' = TRUE
  /\ pc' = "closed"
  /\ UNCHANGED <<role, client, read, request, history>>

Handler ==
  \/ Connect \/ ConnectFails \/ LoopEnds
  \/ ReadRequest \/ ReadStray \/ NoRequest \/ Refuse
  \/ DoGet \/ DoPost \/ PostRefused \/ HandleRequest
  \/ Authorize \/ Unauthorized \/ AuthorizeFails
  \/ Route \/ RouteAsset \/ RouteMissing
  \/ Command \/ NoCommand \/ ParseFails
  \/ Lookup \/ NoLookup
  \/ Raised

Next ==
  \/ \E m \in Messages : Send(m)
  \/ Finish
  \/ LoseDatabase
  \/ Vanished
  \/ Handler

\* The thread runs; a timeout ends every wait for the client.
Spec == Init /\ [][Next]_vars /\ WF_vars(Handler)

-----------------------------------------------------------------------------

(* The handler's attributes and the history hold values of their types. *)
TypeOK ==
  /\ role \in {"admin", "dns"}
  /\ sent \in Seq(Messages) /\ Len(sent) <= MaxMessages
  /\ \A j \in DOMAIN wire : wire[j] \in {"head", "body"} \X DOMAIN sent
  /\ {headers, body, query} \subseteq {None} \cup DOMAIN sent
  /\ user \in {None} \cup DOMAIN sent \cup Users
  /\ db \in {"none", "open", "lost", "closed"}
  /\ {eof, closing} \subseteq BOOLEAN

(***************************************************************************)
(* A command runs for a request that asks for it itself, under the user    *)
(* (for a lookup, the client network) of that request, and once: nothing   *)
(* of an earlier request on the connection is left in it ("clearing any    *)
(* body left over from a prior request", request.py:135; "a fresh or       *)
(* failed request resets it first", admin.py:209).                         *)
(***************************************************************************)
RunsOwn ==
  \A j \in DOMAIN ran :
    /\ ran[j].asked = ran[j].for
    /\ ran[j].as = IF role = "dns" THEN ran[j].for ELSE sent[ran[j].for].login
    /\ \A h \in 1..(j - 1) : ran[h].for < ran[j].for

\* The handler leaves the body of m on the wire: it counts the bytes of a body
\* only in do_POST, and there by the Content-Length alone.
LeavesBody(m) ==
  HasBody(m) /\ (m.method = "POST" => m.body = "chunked") /\ m.method # "PUT"

\* The request line of m is in order and its method is known.
Valid(m) == m.line /\ m.method # "PUT"

(***************************************************************************)
(* A message in order is refused as one that is not only when the request  *)
(* answered last was one whose body the handler does not count: any other  *)
(* body, of whatever request and reply, is off the wire before the next    *)
(* request line is read ("Draining the body keeps the keep-alive           *)
(* connection in sync", request.py:147).                                   *)
(***************************************************************************)
InSync ==
  pc \in {"bad line", "no method"} /\ Valid(This) =>
    Len(replies) > 0 /\ LeavesBody(sent[Len(replies)])

(***************************************************************************)
(* The replies are, in order, one to each request: an error raised after   *)
(* a reply would add a second ("before bytes are sent, so a 500 is safe",  *)
(* request.py:203).  A second reply there is only to a request whose body  *)
(* the handler left on the wire: the 400 to that body.                     *)
(***************************************************************************)
OneReplyEach ==
  /\ \A j \in DOMAIN replies :
       \/ replies[j].to = j
       \/ replies[j] = [to |-> j - 1, code |-> 400] /\ LeavesBody(sent[j - 1])
  /\ pc = "request" => Len(replies) = read

(***************************************************************************)
(* The database connection is closed in the end, also when the client      *)
(* stops sending at any point without closing (it sends MaxMessages at     *)
(* most: one that never pauses for the idle timeout keeps its connection)  *)
(* ("bounds how long the handler holds its database connection",           *)
(* request.py:29).                                                         *)
(***************************************************************************)
DatabaseReleased == db \in {"open", "lost"} ~> db = "closed"
=============================================================================
