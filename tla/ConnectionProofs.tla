--------------------------- MODULE ConnectionProofs ----------------------------
(***************************************************************************)
(* A connection keeps its requests apart: for any messages, any number of  *)
(* them, any users and whatever the client and the database do.            *)
(***************************************************************************)
EXTENDS Connection, SequenceTheorems, TLAPS

-----------------------------------------------------------------------------
(* The inductive invariant. *)

Items == {"head", "body"} \X (Nat \ {0})
Runs == [for : Nat, asked : Nat, as : Nat \cup Users]
Answers == [to : Nat, code : Nat]

\* The j-th item on the wire, or the head of the message still to be sent.
Item(j) == IF j <= Len(wire) THEN wire[j] ELSE <<"head", Len(sent) + 1>>

\* What the client sends next after item x.
After(x) == IF x[1] = "head" /\ HasBody(sent[x[2]])
            THEN <<"body", x[2]>> ELSE <<"head", x[2] + 1>>

\* The wire holds messages in the order they were sent, the last one whole.
Chained ==
  \A j \in 1..Len(wire) : wire[j][2] \in 1..Len(sent) /\ Item(j + 1) = After(wire[j])

Answering == {"dispatch", "authorize", "route", "content", "lookup"}
Handling == {"GET", "HEAD", "POST", "bad line", "no method"} \cup Answering

\* Where a request line is expected after message n comes the next head, or the
\* body of n that was left there.
AtLine(n) ==
  \/ Item(1) = <<"head", n + 1>>
  \/ Item(1) = <<"body", n>> /\ n \in 1..Len(sent) /\ LeavesBody(sent[n])

\* The server knows where on the wire it is; in do_POST a body, if there is one,
\* comes next and is the body of this request.
InStep ==
  /\ pc \in {"connect", "request"} /\ ~closing => AtLine(read)
  /\ pc = "POST" =>
       /\ This.line /\ This.method = "POST"
       /\ Item(1) = IF HasBody(This) THEN <<"body", headers>> ELSE <<"head", headers + 1>>
  /\ pc \in {"GET", "HEAD"} \cup Answering => AtLine(headers)
  /\ InSync

\* A body is being refused in place of a request line.
Stray == pc = "bad line" /\ headers + 1 = read /\ LeavesBody(This)

\* The request being handled is the last one read, and not yet answered.
Serving ==
  /\ pc \in {"connect", "request"} => Len(replies) = read
  /\ pc \in Handling \cup {"raised"} =>
       /\ headers \in 1..Len(sent) /\ Len(replies) + 1 = read
       /\ headers = read \/ Stray
  /\ \A j \in 1..Len(replies) : replies[j].to \in 1..Len(sent)

\* The attributes of the handler are of the request being handled.
Ours ==
  /\ pc \in Answering => body \in {None, headers}
  /\ pc \in {"authorize", "route", "content", "lookup"} => query \in {None, headers}
  /\ pc \in {"authorize", "route", "content"} => role = "admin"
  /\ pc \in {"route", "content"} => user = This.login /\ user \in Users
  /\ pc = "lookup" => role = "dns" /\ user = headers

\* What was run was run for a request that was read, and nothing yet for the
\* one being handled.
Past ==
  /\ \A j \in 1..Len(ran) : ran[j].for \in 1..Len(sent) /\ ran[j].for <= read
  /\ pc \in Handling => \A j \in 1..Len(ran) : ran[j].for < read

Typed ==
  /\ TypeOK
  /\ wire \in Seq(Items) /\ read \in Nat
  /\ replies \in Seq(Answers) /\ ran \in Seq(Runs)

IInv == Typed /\ Chained /\ InStep /\ Serving /\ Ours /\ Past /\ RunsOwn /\ OneReplyEach

-----------------------------------------------------------------------------
(* The wire. *)

\* What the server reads is the first item.
LEMMA TakeOne ==
  ASSUME Typed, wire # <<>>, wire' = Tail(wire), sent' = sent
  PROVE  /\ wire' \in Seq(Items) /\ Len(wire') = Len(wire) - 1 /\ Len(wire) \in Nat \ {0}
         /\ \A j \in 1..Len(wire') : wire'[j] = wire[j + 1]
         /\ \A j \in Nat \ {0} : Item(j)' = Item(j + 1)
         /\ Item(1) = Head(wire) /\ Head(wire) = wire[1]
<1>1. wire \in Seq(Items)  BY DEF Typed
<1>2. /\ wire' \in Seq(Items) /\ Len(wire') = Len(wire) - 1 /\ Len(wire) \in Nat \ {0}
      /\ \A j \in 1..Len(wire') : wire'[j] = wire[j + 1]
      /\ Head(wire) = wire[1]
  BY <1>1
<1>3. \A j \in Nat \ {0} : Item(j)' = Item(j + 1)
  BY <1>2 DEF Item
<1>. QED  BY <1>2, <1>3 DEF Item

\* A line that runs on is read with the item after it.
LEMMA TakeTwo ==
  ASSUME Typed, Len(wire) > 1, wire' = Tail(Tail(wire)), sent' = sent
  PROVE  /\ wire' \in Seq(Items) /\ Len(wire') = Len(wire) - 2
         /\ \A j \in 1..Len(wire') : wire'[j] = wire[j + 2]
         /\ \A j \in Nat \ {0} : Item(j)' = Item(j + 2)
<1>1. wire \in Seq(Items) /\ Len(wire) \in Nat  BY DEF Typed
<1>2. PICK t : t = Tail(wire)  OBVIOUS
<1>3. /\ t \in Seq(Items) /\ Len(t) = Len(wire) - 1 /\ Len(t) > 0
      /\ \A j \in 1..Len(t) : t[j] = wire[j + 1]
  <2>1. Len(wire) # 0 /\ wire # <<>>  BY <1>1
  <2>. QED  BY <1>1, <1>2, <2>1
<1>4. /\ wire' \in Seq(Items) /\ Len(wire') = Len(t) - 1
      /\ \A j \in 1..Len(wire') : wire'[j] = t[j + 1]
  <2>1. wire' = Tail(t)  BY <1>2
  <2>2. t # <<>>  BY <1>3
  <2>3. t \in Seq(Items)  BY <1>3
  <2>. QED  BY <2>1, <2>2, <2>3, HeadTailProperties
<1>5. ASSUME NEW j \in 1..Len(wire')  PROVE wire'[j] = wire[j + 2]
  <2>1. j \in Nat /\ j + 1 \in 1..Len(t) /\ (j + 1) + 1 = j + 2  BY <1>1, <1>3, <1>4
  <2>. QED  BY <1>3, <1>4, <2>1
<1>6. Len(wire') = Len(wire) - 2  BY <1>1, <1>3, <1>4
<1>7. \A j \in Nat \ {0} : Item(j)' = Item(j + 2)
  BY <1>1, <1>5, <1>6 DEF Item
<1>. QED  BY <1>4, <1>5, <1>6, <1>7

\* The client adds to the end.
LEMMA SendAdds ==
  ASSUME Typed, NEW m \in Messages, Send(m)
  PROVE  /\ sent' \in Seq(Messages) /\ Len(sent') = Len(sent) + 1 /\ Len(sent) \in Nat
         /\ \A i \in 1..Len(sent) : sent'[i] = sent[i]
         /\ wire' \in Seq(Items)
         /\ \A j \in 1..Len(wire) + 1 : Item(j)' = Item(j)
         /\ \A j \in 1..Len(wire) : wire'[j] = wire[j]
         /\ Len(wire) \in Nat
         /\ IF HasBody(m)
            THEN /\ Len(wire') = Len(wire) + 2
                 /\ wire'[Len(wire) + 2] = <<"body", Len(sent) + 1>>
            ELSE Len(wire') = Len(wire) + 1
         /\ wire'[Len(wire) + 1] = <<"head", Len(sent) + 1>>
         /\ sent'[Len(sent) + 1] = m
<1>1. sent \in Seq(Messages) /\ wire \in Seq(Items)  BY DEF Typed, TypeOK
<1>2. /\ sent' \in Seq(Messages) /\ Len(sent') = Len(sent) + 1 /\ Len(sent) \in Nat
      /\ \A i \in 1..Len(sent) : sent'[i] = sent[i]
      /\ sent'[Len(sent) + 1] = m
  BY <1>1 DEF Send
<1> DEFINE n == Len(sent) + 1
           long == <<<<"head", n>>, <<"body", n>>>>
           short == <<<<"head", n>>>>
<1>3. /\ long \in Seq(Items) /\ short \in Seq(Items)
      /\ Len(long) = 2 /\ long[1] = <<"head", n>> /\ long[2] = <<"body", n>>
      /\ Len(short) = 1 /\ short[1] = <<"head", n>>
  BY <1>2 DEF Items
<1>4. wire' = wire \o (IF HasBody(m) THEN long ELSE short)
  BY DEF Send
<1> HIDE DEF long, short
<1>5. ASSUME NEW t \in Seq(Items)
      PROVE  /\ wire \o t \in Seq(Items) /\ Len(wire \o t) = Len(wire) + Len(t)
             /\ \A j \in 1..Len(wire) + Len(t) :
                  (wire \o t)[j] = IF j <= Len(wire) THEN wire[j] ELSE t[j - Len(wire)]
  BY <1>1, ConcatProperties
<1>6. Len(wire) \in Nat  BY <1>1
<1>7. /\ wire' \in Seq(Items)
      /\ \A j \in 1..Len(wire) : wire'[j] = wire[j]
      /\ wire'[Len(wire) + 1] = <<"head", n>>
      /\ IF HasBody(m)
         THEN Len(wire') = Len(wire) + 2 /\ wire'[Len(wire) + 2] = <<"body", n>>
         ELSE Len(wire') = Len(wire) + 1
  <2>1. CASE HasBody(m)
    <3>1. /\ wire' = wire \o long /\ wire' \in Seq(Items) /\ Len(wire') = Len(wire) + 2
          /\ \A j \in 1..Len(wire) + 2 :
               wire'[j] = IF j <= Len(wire) THEN wire[j] ELSE long[j - Len(wire)]
      BY <1>3, <1>4, <1>5, <2>1
    <3>2. \A i \in 1..2 : i + Len(wire) \in 1..Len(wire) + 2 /\ wire'[i + Len(wire)] = long[i]
      BY <1>6, <3>1
    <3>. QED  BY <1>3, <1>6, <2>1, <3>1, <3>2
  <2>2. CASE ~HasBody(m)
    <3>1. /\ wire' = wire \o short /\ wire' \in Seq(Items) /\ Len(wire') = Len(wire) + 1
          /\ \A j \in 1..Len(wire) + 1 :
               wire'[j] = IF j <= Len(wire) THEN wire[j] ELSE short[j - Len(wire)]
      BY <1>3, <1>4, <1>5, <2>2
    <3>2. \A i \in 1..1 : i + Len(wire) \in 1..Len(wire) + 1 /\ wire'[i + Len(wire)] = short[i]
      BY <1>6, <3>1
    <3>. QED  BY <1>3, <1>6, <2>2, <3>1, <3>2
  <2>. QED  BY <2>1, <2>2
<1>8. ASSUME NEW j \in 1..Len(wire) + 1  PROVE Item(j)' = Item(j)
  <2>1. Len(wire') >= j  BY <1>6, <1>7
  <2>2. CASE j <= Len(wire)  BY <1>6, <1>7, <2>1, <2>2 DEF Item
  <2>3. CASE j = Len(wire) + 1  BY <1>6, <1>7, <2>1, <2>3 DEF Item
  <2>. QED  BY <1>6, <2>2, <2>3
<1>. QED  BY <1>2, <1>6, <1>7, <1>8

\* What a step does to the wire: nothing, or one end of it moves.
Wired ==
  \/ \E m \in Messages : Send(m)
  \/ UNCHANGED <<sent, wire>>
  \/ wire # <<>> /\ wire' = Tail(wire) /\ sent' = sent
  \/ Len(wire) > 1 /\ wire' = Tail(Tail(wire)) /\ sent' = sent

\* What was sent before stays what it is, so does what follows it.
LEMMA WireChained ==
  ASSUME Typed, Chained, Wired
  PROVE  Chained'
<1>1. Len(wire) \in Nat /\ Len(sent) \in Nat /\ wire \in Seq(Items)
  BY DEF Typed, TypeOK
<1>2. ASSUME NEW m \in Messages, Send(m)  PROVE Chained'
  <2> SUFFICES ASSUME NEW j \in 1..Len(wire')
               PROVE  wire'[j][2] \in 1..Len(sent') /\ Item(j + 1)' = After(wire[j])'
    BY DEF Chained
  <2> DEFINE n == Len(sent) + 1
  <2>1. /\ Len(sent') = n
        /\ \A i \in 1..Len(sent) : sent'[i] = sent[i]
        /\ \A i \in 1..Len(wire) + 1 : Item(i)' = Item(i)
        /\ \A i \in 1..Len(wire) : wire'[i] = wire[i]
        /\ wire'[Len(wire) + 1] = <<"head", n>> /\ sent'[n] = m
        /\ IF HasBody(m)
           THEN Len(wire') = Len(wire) + 2 /\ wire'[Len(wire) + 2] = <<"body", n>>
           ELSE Len(wire') = Len(wire) + 1
    BY <1>2, SendAdds
  <2>2. CASE j <= Len(wire)
    <3>1. wire'[j] = wire[j] /\ wire[j][2] \in 1..Len(sent)
      BY <1>1, <2>1, <2>2 DEF Chained
    <3>2. After(wire[j])' = After(wire[j])
      BY <2>1, <3>1 DEF After
    <3>3. Item(j + 1)' = Item(j + 1)
      BY <1>1, <2>1, <2>2
    <3>. QED  BY <1>1, <2>1, <2>2, <3>1, <3>2, <3>3 DEF Chained
  <2>3. CASE j = Len(wire) + 1 /\ HasBody(m)
    <3>1. wire'[j] = <<"head", n>> /\ HasBody(sent'[n])
      BY <2>1, <2>3
    <3>2. After(wire[j])' = <<"body", n>>
      BY <3>1 DEF After
    <3>3. Item(j + 1)' = wire'[Len(wire) + 2]
      BY <1>1, <2>1, <2>3 DEF Item
    <3>. QED  BY <1>1, <2>1, <2>3, <3>1, <3>2, <3>3
  <2>4. CASE j = Len(wire) + 1 /\ ~HasBody(m)
    <3>1. wire'[j] = <<"head", n>> /\ ~HasBody(sent'[n])
      BY <2>1, <2>4
    <3>2. After(wire[j])' = <<"head", n + 1>>
      BY <3>1 DEF After
    <3>3. Item(j + 1)' = <<"head", n + 1>>
      BY <1>1, <2>1, <2>4 DEF Item
    <3>. QED  BY <1>1, <2>1, <2>4, <3>1, <3>2, <3>3
  <2>5. CASE j = Len(wire) + 2 /\ HasBody(m)
    <3>1. wire'[j] = <<"body", n>> /\ j + 1 > Len(wire') /\ n + 1 = Len(sent') + 1
      BY <1>1, <2>1, <2>5
    <3>2. After(wire[j])' = <<"head", n + 1>>
      BY <3>1 DEF After
    <3>3. Item(j + 1)' = <<"head", n + 1>>
      BY <1>1, <2>1, <2>5, <3>1 DEF Item
    <3>. QED  BY <1>1, <2>1, <3>1, <3>2, <3>3
  <2>. QED  BY <1>1, <2>1, <2>2, <2>3, <2>4, <2>5
<1>3. ASSUME NEW d \in {1, 2}, sent' = sent, Len(wire') = Len(wire) - d,
             \A i \in 1..Len(wire') : wire'[i] = wire[i + d],
             \A i \in Nat \ {0} : Item(i)' = Item(i + d)
      PROVE  Chained'
  <2> SUFFICES ASSUME NEW j \in 1..Len(wire')
               PROVE  wire'[j][2] \in 1..Len(sent') /\ Item(j + 1)' = After(wire[j])'
    BY DEF Chained
  <2> DEFINE k == j + d
  <2>1. k \in 1..Len(wire) /\ j + 1 \in Nat \ {0} /\ (j + 1) + d = k + 1  BY <1>1, <1>3
  <2>2. wire'[j] = wire[k]  BY <1>3
  <2>3. Item(j + 1)' = Item((j + 1) + d)  BY <1>3, <2>1
  <2>4. Item(j + 1)' = Item(k + 1)  BY <2>1, <2>3
  <2> HIDE DEF k
  <2>5. wire[k][2] \in 1..Len(sent) /\ Item(k + 1) = After(wire[k])
    BY <2>1 DEF Chained
  <2>. QED  BY <1>3, <2>2, <2>4, <2>5 DEF After
<1>4. CASE UNCHANGED <<sent, wire>>
  BY <1>4 DEF Chained, Item, After
<1>5. CASE wire # <<>> /\ wire' = Tail(wire) /\ sent' = sent
  BY <1>3, <1>5, TakeOne
<1>6. CASE Len(wire) > 1 /\ wire' = Tail(Tail(wire)) /\ sent' = sent
  BY <1>3, <1>6, TakeTwo
<1>. QED  BY <1>2, <1>4, <1>5, <1>6 DEF Wired

\* The messages are of the message space.
LEMMA SentSpace ==
  ASSUME Typed
  PROVE  \A i \in 1..Len(sent) : sent[i] \in MessageSpace
BY ConnectionAssumption DEF Typed, TypeOK

\* What reading a request line, or a body in its place, makes of the handler.
ReadsLine ==
  /\ sent' = sent /\ wire' \in Seq(Items) /\ Chained'
  /\ pc = "request" /\ Len(replies) = read /\ UNCHANGED replies
  /\ read' = read + 1 /\ headers' \in 1..Len(sent)
  /\ headers' = read' \/ Stray'
  /\ pc' \in {"GET", "HEAD", "POST", "bad line", "no method"} /\ closing' \in BOOLEAN
  /\ InStep'

\* A request line is expected and the head of the next message is read.
LEMMA ReadsNext ==
  ASSUME IInv, ReadRequest
  PROVE  ReadsLine
<1> DEFINE n == read + 1
           m == sent[n]
<1>1. pc = "request" /\ ~closing /\ wire # <<>> /\ wire' = Tail(wire) /\ sent' = sent
      /\ read' = n /\ UNCHANGED replies /\ Head(wire)[1] = "head"
  BY DEF ReadRequest, history
<1>2. Head(wire) = <<"head", n>> /\ wire[1] = <<"head", n>> /\ Item(1)' = Item(2) /\ 1 \in 1..Len(wire)
      /\ wire' \in Seq(Items)
  <2>1. /\ Item(1) = Head(wire) /\ Head(wire) = wire[1]
        /\ \A j \in Nat \ {0} : Item(j)' = Item(j + 1)
        /\ Len(wire) \in Nat \ {0} /\ wire' \in Seq(Items)
    BY <1>1, TakeOne DEF IInv
  <2>2. Item(1) = <<"head", n>> \/ Item(1) = <<"body", read>>
    BY <1>1 DEF IInv, InStep, AtLine
  <2>3. 1 \in Nat \ {0} /\ 1 + 1 = 2  OBVIOUS
  <2>. QED  BY <1>1, <2>1, <2>2, <2>3
<1>3. n \in 1..Len(sent) /\ Item(2) = After(<<"head", n>>)
  <2>1. wire[1][2] \in 1..Len(sent) /\ Item(1 + 1) = After(wire[1])
    BY <1>2 DEF IInv, Chained
  <2>. QED  BY <1>2, <2>1
<1>4. m \in MessageSpace
  BY <1>3, SentSpace DEF IInv
<1>5. /\ headers' = n
      /\ m.line => /\ pc' = IF m.method = "PUT" THEN "no method" ELSE m.method
                   /\ closing' = ~m.keep
      /\ ~m.line => pc' = "bad line" /\ closing' = TRUE
  <2>1. Head(wire)[2] = n  BY <1>2
  <2>2. /\ headers' = n
        /\ IF m.line THEN /\ pc' = IF m.method = "PUT" THEN "no method" ELSE m.method
                          /\ closing' = ~m.keep
           ELSE pc' = "bad line" /\ closing' = TRUE
    BY <2>1, Zenon DEF ReadRequest
  <2>. QED  BY <2>2
<1>6. Item(1)' = IF HasBody(m) THEN <<"body", n>> ELSE <<"head", n + 1>>
  BY <1>2, <1>3 DEF After
<1>7. /\ m.method \in {"GET", "HEAD", "POST", "PUT"}
      /\ m.keep \in BOOLEAN /\ m.line \in BOOLEAN
  BY <1>4 DEF MessageSpace, Methods
<1>8. This' = m /\ sent'[n] = m
  BY <1>1, <1>5 DEF This
<1>9. pc' \in {"GET", "HEAD", "POST", "bad line", "no method"} /\ closing' \in BOOLEAN
  BY <1>5, <1>7
<1>10. Chained'  BY <1>1, WireChained DEF IInv, Wired
<1>11. InStep'
  <2>1. pc' \in {"bad line", "no method"} => ~Valid(m)
    BY <1>5, <1>7 DEF Valid
  <2>2. pc' = "POST" => m.line /\ m.method = "POST"
    BY <1>5, <1>7
  <2>3. pc' \in {"GET", "HEAD"} => m.method \in {"GET", "HEAD"}
    BY <1>5, <1>7
  <2>4. pc' \in {"GET", "HEAD"} => AtLine(headers)'
    <3>1. HasBody(m) /\ m.method \in {"GET", "HEAD"} => LeavesBody(m)  BY DEF LeavesBody
    <3>. QED  BY <1>1, <1>3, <1>5, <1>6, <1>8, <2>3, <3>1 DEF AtLine
  <2>5. InSync'  BY <1>8, <2>1, Zenon DEF InSync
  <2>. QED  BY <1>5, <1>6, <1>8, <1>9, <2>2, <2>4, <2>5 DEF InStep, Answering
<1>12. Len(replies) = read  BY <1>1 DEF IInv, Serving
<1>. QED  BY <1>1, <1>2, <1>3, <1>5, <1>9, <1>10, <1>11, <1>12 DEF ReadsLine

\* A request line is expected and a body is there: it is the body of the request
\* answered last, which the handler left on the wire.
LEMMA ReadsStray ==
  ASSUME IInv, ReadStray
  PROVE  ReadsLine
<1>1. /\ pc = "request" /\ ~closing /\ wire # <<>> /\ sent' = sent
      /\ read' = read + 1 /\ UNCHANGED replies /\ closing' = TRUE
      /\ pc' \in {"bad line", "no method"}
  BY DEF ReadStray, history
<1>2. /\ wire \in Seq(Items) /\ Len(wire) \in Nat \ {0}
      /\ Item(1) = Head(wire) /\ Head(wire) = wire[1]
  <2>1. wire \in Seq(Items)  BY DEF IInv, Typed
  <2>2. Len(wire) \in Nat \ {0} /\ Head(wire) = wire[1]
    <3>1. wire # <<>>  BY <1>1
    <3>. QED  BY <2>1, <3>1
  <2>. QED  BY <2>1, <2>2 DEF Item
<1>3. Head(wire) = <<"body", read>> /\ read \in 1..Len(sent) /\ LeavesBody(sent[read])
  <2>1. AtLine(read)  BY <1>1 DEF IInv, InStep
  <2>2. Head(wire) # <<"head", read + 1>>
    <3>1. Head(wire)[1] = "body"  BY DEF ReadStray
    <3>. QED  BY <3>1
  <2>. QED  BY <1>2, <2>1, <2>2, Zenon DEF AtLine
<1>4. Len(replies) = read /\ read \in Nat
  BY <1>1 DEF IInv, Serving, Typed
<1>5. InSync'
  <2>1. Len(replies') > 0 /\ LeavesBody(sent'[Len(replies')])
    <3>1. Len(replies') = read /\ read > 0
      <4>1. Len(replies') = read  BY <1>1, <1>4
      <4>2. read \in 1..Len(sent)  BY <1>3
      <4>. QED  BY <4>1, <4>2
    <3>2. sent'[Len(replies')] = sent[read]  BY <1>1, <3>1
    <3>3. LeavesBody(sent[read])  BY <1>3
    <3>. QED  BY <3>1, <3>2, <3>3
  <2>. QED  BY <2>1 DEF InSync
<1>6. InStep'
  BY <1>1, <1>5 DEF InStep, Answering
<1>7. CASE wire' = Tail(wire) /\ headers' = Head(wire)[2] /\ pc' = "bad line"
  <2>1. wire' \in Seq(Items)  BY <1>1, <1>7, TakeOne DEF IInv
  <2>2. Chained'  BY <1>1, <1>7, WireChained DEF IInv, Wired
  <2>3. headers' = read
    <3>1. Head(wire) = <<"body", read>>  BY <1>3
    <3>2. <<"body", read>>[2] = read  OBVIOUS
    <3>. QED  BY <1>7, <3>1, <3>2, Zenon
  <2>4. This' = sent[read]  BY <1>1, <2>3 DEF This
  <2>5. Stray'
    <3>1. headers' + 1 = read'  BY <1>1, <2>3
    <3>. QED  BY <1>3, <1>7, <2>4, <3>1 DEF Stray
  <2>. QED  BY <1>1, <1>3, <1>4, <1>6, <1>7, <2>1, <2>2, <2>3, <2>5 DEF ReadsLine
<1>8. CASE Len(wire) > 1 /\ wire' = Tail(Tail(wire)) /\ headers' = wire[2][2]
  <2>1. wire' \in Seq(Items)  BY <1>1, <1>8, TakeTwo DEF IInv
  <2>2. Chained'  BY <1>1, <1>8, WireChained DEF IInv, Wired
  <2>3. 1 \in 1..Len(wire) /\ 2 \in 1..Len(wire) /\ 1 + 1 = 2  BY <1>2, <1>8
  <2>4. Item(2) = After(wire[1]) /\ wire[2][2] \in 1..Len(sent)
    BY <2>3 DEF IInv, Chained
  <2>5. Item(2) = <<"head", read + 1>>  BY <1>2, <1>3, <2>4 DEF After
  <2>6. wire[2] = Item(2)  BY <2>3 DEF Item
  <2>7. headers' = read + 1 /\ headers' \in 1..Len(sent)  BY <1>8, <2>4, <2>5, <2>6
  <2>. QED  BY <1>1, <1>4, <1>6, <2>1, <2>2, <2>7 DEF ReadsLine
<1>. QED  BY <1>7, <1>8 DEF ReadStray

\* do_POST takes the body of this request and no other, or nothing.
LEMMA ReadsBody ==
  ASSUME IInv, DoPost
  PROVE  /\ sent' = sent /\ wire' \in Seq(Items) /\ Chained'
         /\ pc = "POST" /\ pc' = "dispatch" /\ body' \in {None, headers}
         /\ AtLine(headers)'
<1>1. pc = "POST" /\ sent' = sent /\ pc' = "dispatch" /\ headers' = headers
  BY DEF DoPost
<1>2. /\ headers \in 1..Len(sent) /\ This.line /\ This.method = "POST"
      /\ Item(1) = IF HasBody(This) THEN <<"body", headers>> ELSE <<"head", headers + 1>>
  BY <1>1 DEF IInv, InStep, Serving, Handling
<1>3. CASE This.body = "length"
  <2>1. wire # <<>> /\ wire' = Tail(wire) /\ body' = Head(wire)[2]
    BY <1>3 DEF DoPost
  <2>2. Item(1) = <<"body", headers>>  BY <1>2, <1>3 DEF HasBody
  <2>3. /\ Item(1) = Head(wire) /\ Head(wire) = wire[1] /\ wire' \in Seq(Items)
        /\ \A j \in Nat \ {0} : Item(j)' = Item(j + 1)
        /\ Len(wire) \in Nat \ {0}
    BY <1>1, <2>1, TakeOne DEF IInv
  <2>4. 1 \in Nat \ {0} /\ 1 + 1 = 2 /\ 1 \in 1..Len(wire)  BY <2>3
  <2>5. Item(1)' = Item(2)  BY <2>3, <2>4
  <2>6. Item(2) = After(wire[1])  BY <2>4 DEF IInv, Chained
  <2>7. Item(1)' = <<"head", headers + 1>>  BY <2>2, <2>3, <2>5, <2>6 DEF After
  <2>8. Chained'  BY <1>1, <2>1, WireChained DEF IInv, Wired
  <2>. QED  BY <1>1, <2>1, <2>2, <2>3, <2>7, <2>8 DEF AtLine
<1>4. CASE This.body # "length"
  <2>1. UNCHANGED wire /\ body' = None /\ This.body # "bad length"
    BY <1>4 DEF DoPost
  <2>2. Item(1)' = Item(1)  BY <1>1, <2>1 DEF Item
  <2>3. HasBody(This) => LeavesBody(This)
    <3>1. This.body \in {"none", "length", "bad length", "chunked"}
      BY <1>2, SentSpace DEF IInv, This, MessageSpace
    <3>. QED  BY <1>2, <1>4, <2>1, <3>1 DEF HasBody, LeavesBody
  <2>4. Chained'  BY <1>1, <2>1, WireChained DEF IInv, Wired
  <2>5. wire' \in Seq(Items)  BY <2>1 DEF IInv, Typed
  <2>. QED  BY <1>1, <1>2, <2>1, <2>2, <2>3, <2>4, <2>5 DEF AtLine, This
<1>. QED  BY <1>3, <1>4

-----------------------------------------------------------------------------
(* The steps that leave the wire alone. *)

\* Neither the client sends nor the server reads.
Inner ==
  \/ Finish \/ LoseDatabase \/ Vanished
  \/ Connect \/ ConnectFails \/ LoopEnds \/ NoRequest \/ Refuse
  \/ DoGet \/ PostRefused \/ HandleRequest
  \/ Authorize \/ Unauthorized \/ AuthorizeFails
  \/ Route \/ RouteAsset \/ RouteMissing
  \/ Command \/ NoCommand \/ ParseFails
  \/ Lookup \/ NoLookup \/ Raised

LEMMA NextParts ==
  ASSUME Next
  PROVE  (\E m \in Messages : Send(m)) \/ ReadRequest \/ ReadStray \/ DoPost \/ Inner
BY DEF Next, Handler, Inner

LEMMA InnerFrame ==
  ASSUME Inner
  PROVE  UNCHANGED <<role, sent, wire, read, headers>> /\ Item(1)' = Item(1) /\ This' = This
         /\ \A n \in Nat : AtLine(n)' <=> AtLine(n)
<1>1. UNCHANGED <<role, sent, wire, read, headers>>
  BY DEF Inner, Finish, LoseDatabase, Vanished, Connect, ConnectFails, LoopEnds,
       NoRequest, Refuse, DoGet, PostRefused, HandleRequest, Authorize, Unauthorized,
       AuthorizeFails, Route, RouteAsset, RouteMissing, Command, NoCommand, ParseFails,
       Lookup, NoLookup, Raised, client, request
<1>2. Item(1)' = Item(1) /\ This' = This  BY <1>1, Zenon DEF Item, This
<1>3. ASSUME NEW n \in Nat  PROVE AtLine(n)' <=> AtLine(n)
  BY <1>1, <1>2 DEF AtLine
<1>. QED  BY <1>1, <1>2, <1>3

LEMMA InnerInStep ==
  ASSUME IInv, Inner
  PROVE  InStep'
<1>1. /\ UNCHANGED <<sent, read, headers>> /\ Item(1)' = Item(1) /\ This' = This
      /\ \A n \in Nat : AtLine(n)' <=> AtLine(n)
  BY InnerFrame
<1>2. closing \in BOOLEAN  BY DEF IInv, Typed, TypeOK
<1> DEFINE Moves ==
         /\ pc' \in {"connect", "request"} /\ closing' = FALSE =>
              (pc \in {"connect", "request"} /\ closing = FALSE) \/ pc \in Answering
         /\ pc' = "POST" => pc = "POST"
         /\ pc' \in {"GET", "HEAD"} \cup Answering => pc \in {"GET", "HEAD"} \cup Answering
         /\ pc' \in {"bad line", "no method"} => pc' = pc /\ UNCHANGED replies
         /\ closing' \in BOOLEAN
<1>3. Moves
  <2>1. CASE Finish \/ LoseDatabase \/ Vanished \/ Connect \/ ConnectFails \/ LoopEnds
    BY <1>2, <2>1 DEF Finish, LoseDatabase, Vanished, Connect, ConnectFails, LoopEnds, Answering,
         history
  <2>2. CASE NoRequest \/ Refuse \/ DoGet \/ PostRefused \/ HandleRequest
    BY <1>2, <2>2 DEF NoRequest, Refuse, DoGet, PostRefused, HandleRequest, SendError, Answering
  <2>3. CASE Authorize \/ Unauthorized \/ AuthorizeFails \/ Route \/ RouteAsset \/ RouteMissing
    BY <1>2, <2>3 DEF Authorize, Unauthorized, AuthorizeFails, Route, RouteAsset, RouteMissing,
         SendError, SendReply, Answering
  <2>4. CASE Command \/ NoCommand \/ ParseFails
    BY <1>2, <2>4 DEF Command, NoCommand, ParseFails, SendReply, Answering
  <2>5. CASE Lookup \/ NoLookup \/ Raised
    BY <1>2, <2>5 DEF Lookup, NoLookup, Raised, SendError, SendReply, Answering
  <2>. QED  BY <2>1, <2>2, <2>3, <2>4, <2>5 DEF Inner
<1>4. pc \in Answering => headers = read
  BY DEF IInv, Serving, Handling, Stray, Answering
<1>5. read \in Nat /\ (pc \in {"GET", "HEAD"} \cup Answering => headers \in Nat)
  <2>1. pc \in {"GET", "HEAD"} \cup Answering => pc \in Handling  BY DEF Handling
  <2>2. pc \in Handling => headers \in 1..Len(sent)  BY DEF IInv, Serving
  <2>3. Len(sent) \in Nat /\ read \in Nat  BY DEF IInv, Typed, TypeOK
  <2>. QED  BY <2>1, <2>2, <2>3
<1>6. pc' \in {"connect", "request"} /\ ~closing' => AtLine(read)'
  <2>1. pc' \in {"connect", "request"} /\ ~closing' => AtLine(read)
    BY <1>2, <1>3, <1>4 DEF IInv, InStep
  <2>2. AtLine(read)' <=> AtLine(read)  BY <1>1, <1>5
  <2>. QED  BY <2>1, <2>2
<1>7. pc' \in {"GET", "HEAD"} \cup Answering => AtLine(headers)'
  <2>1. pc' \in {"GET", "HEAD"} \cup Answering => AtLine(headers) /\ headers \in Nat
    BY <1>3, <1>5 DEF IInv, InStep
  <2>. QED  BY <1>1, <2>1
<1>8. InSync'
  BY <1>1, <1>3, Zenon DEF IInv, InStep, InSync
<1>. QED  BY <1>1, <1>3, <1>6, <1>7, <1>8 DEF IInv, InStep

\* The reply to the request being handled.
Replied ==
  /\ pc \in Handling \cup {"raised"} /\ pc' \in {"request", "closed"}
  /\ \E c \in Nat :
       (pc = "bad line" => c = 400) /\ replies' = Append(replies, [to |-> headers, code |-> c])

Unreplied ==
  /\ UNCHANGED replies
  /\ pc' \in {"connect", "request"} => pc \in {"connect", "request"}
  /\ pc' \in Handling \cup {"raised"} => pc \in Handling \cup {"raised"}
  /\ pc = "bad line" => pc' \in {"bad line", "closed"}

LEMMA InnerReplies ==
  ASSUME IInv, Inner
  PROVE  Replied \/ Unreplied
<1>1. 200 \in Nat /\ 301 \in Nat /\ 304 \in Nat /\ 400 \in Nat /\ 401 \in Nat /\ 404 \in Nat /\ 500 \in Nat /\ 501 \in Nat
  OBVIOUS
<1>. USE <1>1 DEF Replied, SendError, SendReply, Handling, Answering
<1>2. CASE Refuse  BY <1>2 DEF Refuse
<1>3. CASE PostRefused  BY <1>3 DEF PostRefused
<1>4. CASE HandleRequest  BY <1>4 DEF HandleRequest, Unreplied
<1>5. CASE Unauthorized  BY <1>5 DEF Unauthorized
<1>6. CASE RouteAsset \/ RouteMissing  BY <1>6 DEF RouteAsset, RouteMissing
<1>7. CASE Command \/ NoCommand  BY <1>7 DEF Command, NoCommand
<1>8. CASE Lookup  BY <1>8 DEF Lookup, Unreplied, history
<1>9. CASE NoLookup  BY <1>9 DEF NoLookup
<1>10. CASE Raised  BY <1>10 DEF Raised
<1>11. CASE \/ Finish \/ LoseDatabase \/ Vanished \/ Connect \/ ConnectFails \/ LoopEnds
           \/ NoRequest \/ DoGet \/ Authorize \/ AuthorizeFails \/ Route \/ ParseFails
  BY <1>11 DEF Unreplied, Finish, LoseDatabase, Vanished, Connect, ConnectFails, LoopEnds,
       NoRequest, DoGet, Authorize, AuthorizeFails, Route, ParseFails, history
<1>. QED  BY <1>2, <1>3, <1>4, <1>5, <1>6, <1>7, <1>8, <1>9, <1>10, <1>11 DEF Inner

LEMMA InnerServing ==
  ASSUME IInv, Inner
  PROVE  Serving' /\ OneReplyEach' /\ replies' \in Seq(Answers)
<1>1. /\ UNCHANGED <<sent, read, headers>> /\ This' = This
      /\ replies \in Seq(Answers) /\ Len(replies) \in Nat
      /\ read \in Nat /\ Len(sent) \in Nat
  BY InnerFrame DEF IInv, Typed, TypeOK
<1>2. \A j \in 1..Len(replies) :
        /\ replies[j].to = j \/ (replies[j] = [to |-> j - 1, code |-> 400] /\ LeavesBody(sent[j - 1]))
        /\ replies[j].to \in 1..Len(sent)
  <2>1. DOMAIN replies = 1..Len(replies)  BY <1>1
  <2>2. \A j \in 1..Len(replies) : replies[j].to \in 1..Len(sent)  BY DEF IInv, Serving
  <2>3. \A j \in DOMAIN replies :
          replies[j].to = j \/ (replies[j] = [to |-> j - 1, code |-> 400] /\ LeavesBody(sent[j - 1]))
    BY DEF IInv, OneReplyEach
  <2>. QED  BY <2>1, <2>2, <2>3
<1>3. CASE Replied
  <2>1. /\ headers \in 1..Len(sent) /\ Len(replies) + 1 = read
        /\ headers = read \/ Stray
        /\ pc' \in {"request", "closed"}
    BY <1>3 DEF Replied, IInv, Serving
  <2>2. PICK c \in Nat :
          (pc = "bad line" => c = 400) /\ replies' = Append(replies, [to |-> headers, code |-> c])
    BY <1>3 DEF Replied
  <2> DEFINE a == [to |-> headers, code |-> c]
             n == Len(replies) + 1
  <2>3. a \in Answers /\ a.to = headers /\ headers \in Nat  BY <1>1, <2>1 DEF Answers
  <2>4. a.to = n \/ (a = [to |-> n - 1, code |-> 400] /\ LeavesBody(sent[n - 1]))
    <3>1. CASE headers = read  BY <2>1, <2>3, <3>1
    <3>2. CASE Stray
      <4>1. c = 400 /\ headers + 1 = read /\ LeavesBody(sent[headers])
        BY <2>2, <3>2 DEF Stray, This
      <4>2. n - 1 = headers  BY <1>1, <2>1, <2>3, <4>1
      <4>. QED  BY <4>1, <4>2
    <3>. QED  BY <2>1, <3>1, <3>2
  <2> HIDE DEF a
  <2>5. /\ replies' \in Seq(Answers) /\ Len(replies') = n
        /\ \A j \in 1..Len(replies) : replies'[j] = replies[j]
        /\ replies'[n] = a
    <3>1. replies' = Append(replies, a)  BY <2>2 DEF a
    <3>. QED  BY <1>1, <2>3, <3>1
  <2>6. ASSUME NEW j \in 1..Len(replies')
        PROVE  /\ \/ replies'[j].to = j
                  \/ replies'[j] = [to |-> j - 1, code |-> 400] /\ LeavesBody(sent'[j - 1])
               /\ replies'[j].to \in 1..Len(sent')
    <3>1. CASE j \in 1..Len(replies)
      <4>1. replies'[j] = replies[j]  BY <2>5, <3>1
      <4>2. \/ replies[j].to = j
            \/ replies[j] = [to |-> j - 1, code |-> 400] /\ LeavesBody(sent[j - 1])
        BY <1>2, <3>1
      <4>3. replies[j].to \in 1..Len(sent)  BY <1>2, <3>1
      <4>. QED  BY <1>1, <4>1, <4>2, <4>3
    <3>2. CASE j = n  BY <1>1, <2>1, <2>3, <2>4, <2>5, <3>2
    <3>. QED  BY <1>1, <2>5, <3>1, <3>2
  <2>7. pc' \notin {"connect", "raised"} \cup Handling  BY <2>1 DEF Handling, Answering
  <2>8. Len(replies') = read'  BY <1>1, <2>1, <2>5
  <2>9. Serving'  BY <2>6, <2>7, <2>8 DEF Serving
  <2>10. OneReplyEach'
    <3>1. DOMAIN replies' = 1..Len(replies')  BY <2>5
    <3>. QED  BY <2>6, <2>8, <3>1 DEF OneReplyEach
  <2>. QED  BY <2>5, <2>9, <2>10
<1>4. CASE Unreplied
  <2>1. Stray /\ pc' \in Handling \cup {"raised"} => Stray'
    BY <1>1, <1>4 DEF Unreplied, Stray, Handling, Answering
  <2>2. Serving'
    BY <1>1, <1>4, <2>1 DEF Unreplied, IInv, Serving
  <2>3. OneReplyEach'
    BY <1>1, <1>4, Zenon DEF Unreplied, IInv, Serving, OneReplyEach
  <2>. QED  BY <1>1, <1>4, <2>2, <2>3 DEF Unreplied
<1>. QED  BY <1>3, <1>4, InnerReplies

\* The attributes are set for this request before they are used for it.
LEMMA InnerOurs ==
  ASSUME IInv, Inner
  PROVE  Ours'
<1>1. UNCHANGED <<role, headers>> /\ This' = This
  BY InnerFrame
<1>2. role \in {"admin", "dns"} /\ (pc \in Handling => This \in MessageSpace)
  <2>1. pc \in Handling => headers \in 1..Len(sent)  BY DEF IInv, Serving
  <2>2. sent \in Seq(MessageSpace)  BY ConnectionAssumption DEF IInv, Typed, TypeOK
  <2>3. pc \in Handling => sent[headers] \in MessageSpace  BY <2>1, <2>2
  <2>. QED  BY <2>3 DEF IInv, Typed, TypeOK, This
<1>. USE <1>1 DEF IInv, Ours, Answering
<1>3. CASE DoGet  BY <1>3 DEF DoGet
<1>4. CASE HandleRequest  BY <1>2, <1>4 DEF HandleRequest, SendError
<1>5. CASE Authorize
  <2>1. This.login \in Users
    BY <1>2, <1>5 DEF Authorize, MessageSpace, Handling
  <2>. QED  BY <1>5, <2>1 DEF Authorize
<1>6. CASE Route  BY <1>6 DEF Route, request
<1>7. CASE \/ Finish \/ LoseDatabase
  BY <1>7 DEF Finish, LoseDatabase, request
<1>8. ASSUME pc' \in {"request", "closed", "raised"}  PROVE Ours'
  BY <1>8
<1>9. CASE \/ Vanished \/ Connect \/ ConnectFails \/ LoopEnds \/ NoRequest \/ Refuse
           \/ PostRefused \/ Unauthorized \/ AuthorizeFails
  BY <1>8, <1>9 DEF Vanished, Connect, ConnectFails, LoopEnds, NoRequest, Refuse, PostRefused,
       Unauthorized, AuthorizeFails, SendError, SendReply
<1>10. CASE \/ RouteAsset \/ RouteMissing \/ Command \/ NoCommand \/ ParseFails
            \/ Lookup \/ NoLookup \/ Raised
  BY <1>8, <1>10 DEF RouteAsset, RouteMissing, Command, NoCommand, ParseFails, Lookup,
       NoLookup, Raised, SendError, SendReply
<1>. QED  BY <1>3, <1>4, <1>5, <1>6, <1>7, <1>9, <1>10 DEF Inner

\* Whom a request is run for.
Caller == IF role = "dns" THEN headers ELSE This.login

RanOne ==
  /\ pc \in {"content", "lookup"} /\ pc' = "request"
  /\ Caller \in Nat \cup Users
  /\ ran' = Append(ran, [for |-> headers, asked |-> headers, as |-> Caller])

RanNone ==
  /\ UNCHANGED ran
  /\ pc' \in Handling => pc \in Handling

\* What runs is asked for by the request being handled, under its own user.
LEMMA InnerRuns ==
  ASSUME IInv, Inner
  PROVE  RanOne \/ RanNone
<1>1. CASE Command
  <2>1. pc = "content" /\ pc' = "request" /\ Asks = "command"
    BY <1>1 DEF Command, SendReply
  <2>2. Source = headers
    BY <2>1 DEF Asks, Source, IInv, Ours, Answering
  <2>3. user = Caller /\ Caller \in Users
    BY <2>1 DEF IInv, Ours, Caller
  <2>4. \/ ran' = Append(ran, [for |-> headers, asked |-> Source, as |-> user])
        \/ UNCHANGED ran
    BY <1>1 DEF Command
  <2>5. CASE ran' = Append(ran, [for |-> headers, asked |-> Source, as |-> user])
    BY <2>1, <2>2, <2>3, <2>5 DEF RanOne
  <2>6. CASE UNCHANGED ran
    BY <2>1, <2>6 DEF RanNone, Handling, Answering
  <2>. QED  BY <2>4, <2>5, <2>6
<1>2. CASE Lookup
  <2>1. pc = "lookup" /\ pc' \in {"request", "raised"}
    BY <1>2 DEF Lookup, SendReply
  <2>2. user = Caller /\ Caller = headers
    BY <2>1 DEF IInv, Ours, Caller
  <2>3. headers \in Nat
    BY <2>1 DEF IInv, Serving, Handling, Answering
  <2>. QED  BY <1>2, <2>1, <2>2, <2>3 DEF Lookup, SendReply, RanOne, RanNone, Handling, Answering, history
<1>3. CASE \/ Vanished \/ Connect \/ ConnectFails \/ LoopEnds \/ NoRequest \/ Refuse
           \/ PostRefused \/ Unauthorized \/ AuthorizeFails \/ Finish \/ LoseDatabase
  BY <1>3 DEF Vanished, Connect, ConnectFails, LoopEnds, NoRequest, Refuse, PostRefused,
       Unauthorized, AuthorizeFails, Finish, LoseDatabase, SendError, SendReply, history,
       RanNone, Handling, Answering
<1>4. CASE DoGet \/ HandleRequest \/ Authorize \/ Route
  BY <1>4 DEF DoGet, HandleRequest, Authorize, Route, SendError, history, RanNone, Handling,
       Answering
<1>5. CASE RouteAsset \/ RouteMissing \/ NoCommand \/ ParseFails \/ NoLookup \/ Raised
  <2>1. UNCHANGED ran
    BY <1>5 DEF RouteAsset, RouteMissing, NoCommand, ParseFails, NoLookup, Raised, history
  <2>2. pc' \in {"request", "closed", "raised"}
    BY <1>5 DEF RouteAsset, RouteMissing, NoCommand, ParseFails, NoLookup, Raised, SendError,
         SendReply
  <2>. QED  BY <2>1, <2>2 DEF RanNone, Handling, Answering
<1>. QED  BY <1>1, <1>2, <1>3, <1>4, <1>5 DEF Inner

LEMMA InnerPast ==
  ASSUME IInv, Inner
  PROVE  Past' /\ RunsOwn' /\ ran' \in Seq(Runs)
<1>1. /\ UNCHANGED <<role, sent, read, headers>> /\ This' = This
      /\ ran \in Seq(Runs) /\ Len(ran) \in Nat /\ read \in Nat
  BY InnerFrame DEF IInv, Typed
<1>2. CASE RanOne
  <2>1. headers = read /\ read \in 1..Len(sent)
    BY <1>2 DEF RanOne, IInv, Serving, Stray, Handling, Answering
  <2> DEFINE r == [for |-> headers, asked |-> headers, as |-> Caller]
             n == Len(ran) + 1
  <2>2. r \in Runs /\ r.for = headers /\ r.asked = headers /\ r.as = Caller
    BY <1>1, <1>2, <2>1 DEF RanOne, Runs
  <2>3. ran' = Append(ran, r)  BY <1>2 DEF RanOne
  <2> HIDE DEF r
  <2>4. /\ ran' \in Seq(Runs) /\ Len(ran') = n /\ n \in Nat
        /\ \A j \in 1..Len(ran) : ran'[j] = ran[j]
        /\ ran'[n] = r
    BY <1>1, <2>2, <2>3
  <2>5. \A j \in 1..Len(ran) : ran[j].for \in 1..Len(sent) /\ ran[j].for < read
    BY <1>2 DEF RanOne, IInv, Past, Handling, Answering
  <2>6. Past'
    <3>1. pc' \notin Handling  BY <1>2 DEF RanOne, Handling, Answering
    <3>2. ASSUME NEW j \in 1..Len(ran')
          PROVE  ran'[j].for \in 1..Len(sent) /\ ran'[j].for <= read
      BY <1>1, <2>1, <2>2, <2>4, <2>5
    <3>. QED  BY <1>1, <3>1, <3>2 DEF Past
  <2>7. RunsOwn'
    <3> SUFFICES ASSUME NEW j \in 1..Len(ran')
        PROVE  /\ ran'[j].asked = ran'[j].for
               /\ ran'[j].as = IF role = "dns" THEN ran'[j].for ELSE sent[ran'[j].for].login
               /\ \A h \in 1..(j - 1) : ran'[h].for < ran'[j].for
      BY <1>1, <2>4 DEF RunsOwn
    <3>1. CASE j = n
      BY <1>1, <2>1, <2>2, <2>4, <2>5, <3>1 DEF Caller, This
    <3>2. CASE j \in 1..Len(ran)
      <4>1. /\ ran[j].asked = ran[j].for
            /\ ran[j].as = IF role = "dns" THEN ran[j].for ELSE sent[ran[j].for].login
            /\ \A h \in 1..(j - 1) : ran[h].for < ran[j].for
        BY <1>1, <3>2 DEF IInv, RunsOwn
      <4>2. \A h \in 1..(j - 1) : h \in 1..Len(ran)  BY <1>1, <3>2
      <4>. QED  BY <2>4, <3>2, <4>1, <4>2
    <3>. QED  BY <2>4, <3>1, <3>2
  <2>. QED  BY <2>4, <2>6, <2>7
<1>3. CASE RanNone
  BY <1>1, <1>3, Zenon DEF RanNone, IInv, Past, RunsOwn
<1>. QED  BY <1>2, <1>3, InnerRuns

\* What a step can store in the query and the user.
Stored ==
  /\ \/ query' \in {query, None}
     \/ pc = "dispatch" /\ query' = headers
  /\ \/ user' \in {user, None}
     \/ pc = "dispatch" /\ user' = headers
     \/ pc = "authorize" /\ This.login \notin {None, Wrong} /\ user' = This.login

LEMMA InnerTyped ==
  ASSUME IInv, Inner
  PROVE  Typed'
<1>1. UNCHANGED <<role, sent, wire, read, headers>> /\ This' = This
  BY InnerFrame
<1>2. replies' \in Seq(Answers) /\ ran' \in Seq(Runs)
  BY InnerServing, InnerPast
<1>3. /\ pc \in Handling => headers \in DOMAIN sent
      /\ pc = "authorize" => This.login \in Users \cup {Wrong, None}
  <2>1. pc \in Handling => headers \in 1..Len(sent)  BY DEF IInv, Serving
  <2>2. sent \in Seq(MessageSpace)  BY ConnectionAssumption DEF IInv, Typed, TypeOK
  <2>3. pc \in Handling => sent[headers] \in MessageSpace  BY <2>1, <2>2
  <2>4. DOMAIN sent = 1..Len(sent)  BY <2>2
  <2>5. pc = "authorize" => sent[headers] \in MessageSpace  BY <2>3 DEF Handling, Answering
  <2>6. pc = "authorize" => This.login \in Users \cup {Wrong, None}
    BY <2>5 DEF This, MessageSpace
  <2>. QED  BY <2>1, <2>4, <2>6
<1>4. body' \in {None, body}
  BY DEF Inner, Finish, LoseDatabase, Vanished, Connect, ConnectFails, LoopEnds,
       NoRequest, Refuse, DoGet, PostRefused, HandleRequest, Authorize, Unauthorized,
       AuthorizeFails, Route, RouteAsset, RouteMissing, Command, NoCommand, ParseFails,
       Lookup, NoLookup, Raised, request
<1>5. Stored
  <2>1. CASE HandleRequest
    <3>1. pc = "dispatch"  BY <2>1 DEF HandleRequest
    <3>2. query' \in {None, headers}  BY <2>1 DEF HandleRequest
    <3>3. user' \in {user, headers}  BY <2>1 DEF HandleRequest
    <3>. QED  BY <3>1, <3>2, <3>3 DEF Stored
  <2>2. CASE Authorize \/ Unauthorized \/ AuthorizeFails
    BY <2>2 DEF Authorize, Unauthorized, AuthorizeFails, Stored
  <2>3. CASE \/ Finish \/ LoseDatabase \/ Vanished \/ Connect \/ ConnectFails \/ LoopEnds
             \/ NoRequest \/ Refuse \/ DoGet \/ PostRefused
             \/ Route \/ RouteAsset \/ RouteMissing \/ Command \/ NoCommand \/ ParseFails
             \/ Lookup \/ NoLookup \/ Raised
    <3>1. UNCHANGED <<query, user>>
      BY <2>3 DEF Finish, LoseDatabase, Vanished, Connect, ConnectFails, LoopEnds, NoRequest,
           Refuse, DoGet, PostRefused, Route, RouteAsset, RouteMissing, Command, NoCommand,
           ParseFails, Lookup, NoLookup, Raised, request
    <3>. QED  BY <3>1 DEF Stored
  <2>. QED  BY <2>1, <2>2, <2>3 DEF Inner
<1>6. db' = db \/ db' \in {"open", "lost", "closed"}
  BY DEF Inner, Finish, LoseDatabase, Vanished, Connect, ConnectFails, LoopEnds,
       NoRequest, Refuse, DoGet, PostRefused, HandleRequest, Authorize, Unauthorized,
       AuthorizeFails, Route, RouteAsset, RouteMissing, Command, NoCommand, ParseFails,
       Lookup, NoLookup, Raised, Statement, StatementFails
<1>7. (eof' = eof \/ eof' = TRUE) /\ (closing' = closing \/ closing' = TRUE)
  BY DEF Inner, Finish, LoseDatabase, Vanished, Connect, ConnectFails, LoopEnds,
       NoRequest, Refuse, DoGet, PostRefused, HandleRequest, Authorize, Unauthorized,
       AuthorizeFails, Route, RouteAsset, RouteMissing, Command, NoCommand, ParseFails,
       Lookup, NoLookup, Raised, SendError, SendReply, client
<1>8. {eof', closing'} \subseteq BOOLEAN
  BY <1>7 DEF IInv, Typed, TypeOK
<1>9. {headers', body', query'} \subseteq {None} \cup DOMAIN sent
  BY <1>1, <1>3, <1>4, <1>5 DEF Stored, IInv, Typed, TypeOK, Handling, Answering
<1>10. user' \in {None} \cup DOMAIN sent \cup Users
  BY <1>1, <1>3, <1>5 DEF Stored, IInv, Typed, TypeOK, Handling, Answering
<1>11. db' \in {"none", "open", "lost", "closed"}
  BY <1>6 DEF IInv, Typed, TypeOK
<1>12. TypeOK'
  BY <1>1, <1>8, <1>9, <1>10, <1>11, Zenon DEF IInv, Typed, TypeOK
<1>. QED  BY <1>1, <1>2, <1>12 DEF IInv, Typed

-----------------------------------------------------------------------------
(* The steps on the wire. *)

\* The type of the wire follows from its order.
LEMMA WireTyped ==
  ASSUME NEW w \in Seq(Items), NEW s \in Seq(Messages),
         \A j \in 1..Len(w) : w[j][2] \in 1..Len(s)
  PROVE  \A j \in DOMAIN w : w[j] \in {"head", "body"} \X DOMAIN s
<1>1. DOMAIN s = 1..Len(s) /\ DOMAIN w = 1..Len(w)  OBVIOUS
<1>2. ASSUME NEW j \in 1..Len(w)  PROVE w[j] \in {"head", "body"} \X (1..Len(s))
  <2>1. w[j] \in {"head", "body"} \X (Nat \ {0})  BY DEF Items
  <2>2. PICK a \in {"head", "body"}, i \in Nat \ {0} : w[j] = <<a, i>>
    BY <2>1
  <2>3. i \in 1..Len(s)  BY <2>2
  <2>. QED  BY <2>2, <2>3
<1>. QED  BY <1>1, <1>2

\* The client only appends to what the server has not read.
LEMMA SendKeeps ==
  ASSUME IInv, NEW m \in Messages, Send(m)
  PROVE  IInv'
<1> DEFINE n == Len(sent)
<1>1. /\ sent' \in Seq(Messages) /\ Len(sent') = n + 1 /\ n \in Nat
      /\ \A i \in 1..n : sent'[i] = sent[i]
      /\ wire' \in Seq(Items)
      /\ Item(1)' = Item(1)
  <2>1. /\ \A j \in 1..Len(wire) + 1 : Item(j)' = Item(j)
        /\ Len(wire) \in Nat
    BY SendAdds DEF IInv
  <2>. QED  BY <2>1, SendAdds DEF IInv
<1>2. UNCHANGED <<role, pc, read, headers, body, query, user, closing, db, replies, ran, eof>>
  BY DEF Send, request, history
<1>3. Chained'
  BY WireChained DEF IInv, Wired
<1>4. headers \in 1..n => This' = This
  BY <1>1, <1>2 DEF This
<1>5. Typed'
  <2>1. DOMAIN sent = 1..n /\ DOMAIN sent' = 1..(n + 1) /\ sent \in Seq(Messages)
    BY <1>1 DEF IInv, Typed, TypeOK
  <2>2. DOMAIN sent \subseteq DOMAIN sent'  BY <1>1, <2>1
  <2>3. \A j \in DOMAIN wire' : wire'[j] \in {"head", "body"} \X DOMAIN sent'
    BY <1>1, <1>3, WireTyped DEF Chained
  <2>4. Len(sent') <= MaxMessages
    BY <1>1, ConnectionAssumption DEF Send
  <2>5. {headers, body, query} \subseteq {None} \cup DOMAIN sent'
    BY <2>2 DEF IInv, Typed, TypeOK
  <2>6. user \in {None} \cup DOMAIN sent' \cup Users
    BY <2>2 DEF IInv, Typed, TypeOK
  <2>7. TypeOK'
    BY <1>1, <1>2, <2>3, <2>4, <2>5, <2>6, Zenon DEF IInv, Typed, TypeOK
  <2>. QED  BY <1>1, <1>2, <2>7 DEF IInv, Typed
<1>6. pc \in Handling => headers \in 1..n
  BY DEF IInv, Serving
<1>7. InStep'
  <2>1. pc \in Handling => This' = This /\ headers \in 1..n  BY <1>4, <1>6
  <2>2. pc \in {"bad line", "no method"} => Len(replies) \in Nat /\ Len(replies) <= n
    <3>1. Len(replies) \in Nat /\ read \in Nat /\ n \in Nat  BY <1>1 DEF IInv, Typed
    <3>2. pc \in {"bad line", "no method"} =>
            /\ headers \in 1..n /\ Len(replies) + 1 = read
            /\ headers = read \/ headers + 1 = read
      <4>1. pc \in {"bad line", "no method"} => pc \in Handling  BY DEF Handling
      <4>2. /\ pc \in Handling => headers \in 1..n /\ Len(replies) + 1 = read
            /\ pc \in Handling => headers = read \/ headers + 1 = read
        BY DEF IInv, Serving, Stray
      <4>. QED  BY <4>1, <4>2
    <3>3. headers \in 1..n /\ Len(replies) + 1 = read /\ (headers = read \/ headers + 1 = read) =>
            Len(replies) <= n
      BY <3>1
    <3>. QED  BY <3>1, <3>2, <3>3
  <2>3. \A i \in 1..n : sent'[i] = sent[i] /\ i \in 1..Len(sent')  BY <1>1
  <2>4. \A i \in Nat : AtLine(i) => AtLine(i)'
    BY <1>1, <2>3 DEF AtLine
  <2>5. InSync'
    <3>1. CASE pc \in {"bad line", "no method"} /\ Valid(This)
      <4>1. Len(replies) \in 1..n /\ LeavesBody(sent[Len(replies)])
        <5>1. Len(replies) > 0 /\ LeavesBody(sent[Len(replies)])
          BY <3>1 DEF IInv, InStep, InSync
        <5>2. Len(replies) \in Nat /\ Len(replies) <= n  BY <2>2, <3>1
        <5>. QED  BY <1>1, <5>1, <5>2
      <4>2. Len(replies') > 0 /\ LeavesBody(sent'[Len(replies')])
        BY <1>2, <2>3, <4>1
      <4>. QED  BY <4>2 DEF InSync
    <3>2. CASE pc \notin {"bad line", "no method"}
      BY <1>2, <3>2 DEF InSync
    <3>3. CASE pc \in {"bad line", "no method"} /\ ~Valid(This)
      BY <1>2, <2>1, <3>3 DEF InSync, Handling
    <3>. QED  BY <3>1, <3>2, <3>3
  <2>6. read \in Nat /\ (pc \in Handling => headers \in Nat)  BY <1>1, <1>6 DEF IInv, Typed
  <2>7. pc' \in {"connect", "request"} /\ ~closing' => AtLine(read)'
    BY <1>2, <2>4, <2>6 DEF IInv, InStep
  <2>8. pc' \in {"GET", "HEAD"} \cup Answering => AtLine(headers)'
    <3>1. pc \in {"GET", "HEAD"} \cup Answering => headers \in Nat /\ AtLine(headers)
      BY <2>6 DEF IInv, InStep, Handling
    <3>2. headers \in Nat /\ AtLine(headers) => AtLine(headers)'
      BY <1>2, <2>4 DEF AtLine
    <3>. QED  BY <1>2, <3>1, <3>2
  <2>9. pc = "POST" => This' = This  BY <2>1 DEF Handling
  <2>. QED  BY <1>1, <1>2, <2>5, <2>7, <2>8, <2>9 DEF IInv, InStep
<1>8. Serving'
  <2>1. Stray => Stray'
    BY <1>2, <1>4, <1>6 DEF Stray, Handling
  <2>. QED  BY <1>1, <1>2, <2>1 DEF IInv, Serving
<1>9. Ours'
  <2>1. pc \in {"route", "content"} => This' = This  BY <1>4, <1>6 DEF Handling, Answering
  <2>. QED  BY <1>2, <2>1 DEF IInv, Ours
<1>10. Past'
  BY <1>1, <1>2 DEF IInv, Past
<1>11. RunsOwn'
  <2>1. \A j \in 1..Len(ran) : sent'[ran[j].for] = sent[ran[j].for]
    BY <1>1 DEF IInv, Past
  <2>2. DOMAIN ran = 1..Len(ran)  BY DEF IInv, Typed
  <2>. QED  BY <1>2, <2>1, <2>2, Zenon DEF IInv, RunsOwn
<1>12. OneReplyEach'
  <2>1. DOMAIN replies = 1..Len(replies)  BY DEF IInv, Typed
  <2>2. ASSUME NEW j \in 1..Len(replies), replies[j].to # j
        PROVE  replies[j] = [to |-> j - 1, code |-> 400] /\ LeavesBody(sent'[j - 1])
    <3>1. replies[j] = [to |-> j - 1, code |-> 400] /\ LeavesBody(sent[j - 1])
      BY <2>1, <2>2 DEF IInv, OneReplyEach
    <3>2. replies[j].to \in 1..n  BY DEF IInv, Serving
    <3>3. j - 1 \in 1..n  BY <3>1, <3>2
    <3>. QED  BY <1>1, <3>1, <3>3
  <2>3. pc = "request" => Len(replies) = read  BY DEF IInv, OneReplyEach
  <2>. QED  BY <1>2, <2>1, <2>2, <2>3 DEF OneReplyEach
<1>. QED  BY <1>3, <1>5, <1>7, <1>8, <1>9, <1>10, <1>11, <1>12 DEF IInv

\* The server takes the next request line, or a body for one.
LEMMA ReadKeeps ==
  ASSUME IInv, ReadRequest \/ ReadStray
  PROVE  IInv'
<1>1. /\ read' = read + 1 /\ headers' \in 1..Len(sent)
      /\ headers' = read' \/ Stray'
      /\ sent' = sent /\ wire' \in Seq(Items)
      /\ pc = "request" /\ Len(replies) = read /\ UNCHANGED replies
      /\ pc' \in {"GET", "HEAD", "POST", "bad line", "no method"}
      /\ closing' \in BOOLEAN
  BY ReadsNext, ReadsStray DEF ReadsLine
<1>2. UNCHANGED <<role, eof, body, query, user, db, replies, ran>>
  BY DEF ReadRequest, ReadStray, history
<1>3. wire' \in Seq(Items)  BY <1>1
<1>4. Chained'  BY ReadsNext, ReadsStray DEF ReadsLine
<1>5. sent \in Seq(Messages) /\ DOMAIN sent = 1..Len(sent) /\ read \in Nat
  BY DEF IInv, Typed, TypeOK
<1>6. Typed'
  <2>1. \A j \in DOMAIN wire' : wire'[j] \in {"head", "body"} \X DOMAIN sent'
    BY <1>1, <1>3, <1>4, <1>5, WireTyped DEF Chained
  <2>2. {headers', body', query'} \subseteq {None} \cup DOMAIN sent'
    BY <1>1, <1>2, <1>5 DEF IInv, Typed, TypeOK
  <2>3. {eof', closing'} \subseteq BOOLEAN
    BY <1>1, <1>2 DEF IInv, Typed, TypeOK
  <2>4. TypeOK'
    BY <1>1, <1>2, <2>1, <2>2, <2>3, Zenon DEF IInv, Typed, TypeOK
  <2>5. read' \in Nat /\ replies' \in Seq(Answers) /\ ran' \in Seq(Runs)
    <3>1. replies \in Seq(Answers) /\ ran \in Seq(Runs)  BY DEF IInv, Typed
    <3>2. read + 1 \in Nat  BY <1>5
    <3>. QED  BY <1>1, <1>2, <3>1, <3>2
  <2>. QED  BY <1>3, <2>4, <2>5 DEF Typed
<1>7. InStep'
  BY ReadsNext, ReadsStray DEF ReadsLine
<1>8. Serving'
  <2>1. \A j \in 1..Len(replies) : replies[j].to \in 1..Len(sent)  BY DEF IInv, Serving
  <2>. QED  BY <1>1, <1>5, <2>1 DEF Serving
<1>9. Ours'
  BY <1>1 DEF Ours, Answering
<1>10. Past'
  <2>1. \A j \in 1..Len(ran) : ran[j].for \in 1..Len(sent) /\ ran[j].for <= read
    BY DEF IInv, Past
  <2>2. \A j \in 1..Len(ran) : ran[j].for < read + 1 /\ ran[j].for <= read + 1
    BY <1>5, <2>1
  <2>. QED  BY <1>1, <1>2, <2>1, <2>2 DEF Past
<1>11. RunsOwn'
  BY <1>1, <1>2, Zenon DEF IInv, RunsOwn
<1>12. OneReplyEach'
  BY <1>1, Zenon DEF IInv, OneReplyEach
<1>. QED  BY <1>4, <1>6, <1>7, <1>8, <1>9, <1>10, <1>11, <1>12 DEF IInv

\* The server takes the body of the request, or none.
LEMMA BodyKeeps ==
  ASSUME IInv, DoPost
  PROVE  IInv'
<1>1. /\ sent' = sent /\ wire' \in Seq(Items)
      /\ pc = "POST" /\ pc' = "dispatch" /\ body' \in {None, headers}
      /\ AtLine(headers)'
  BY ReadsBody
<1>2. UNCHANGED <<role, eof, read, headers, query, user, closing, db, replies, ran>>
  BY DEF DoPost, history
<1>3. wire' \in Seq(Items)  BY <1>1
<1>4. Chained'  BY ReadsBody
<1>5. sent \in Seq(Messages) /\ DOMAIN sent = 1..Len(sent)
  BY DEF IInv, Typed, TypeOK
<1>6. /\ headers = read /\ headers \in 1..Len(sent) /\ Len(replies) + 1 = read
      /\ \A j \in 1..Len(replies) : replies[j].to \in 1..Len(sent)
  BY <1>1 DEF IInv, Serving, Stray, Handling
<1>7. Typed'
  <2>1. \A j \in DOMAIN wire' : wire'[j] \in {"head", "body"} \X DOMAIN sent'
    BY <1>1, <1>3, <1>4, <1>5, WireTyped DEF Chained
  <2>2. {headers', body', query'} \subseteq {None} \cup DOMAIN sent'
    BY <1>1, <1>2, <1>5, <1>6 DEF IInv, Typed, TypeOK
  <2>3. TypeOK'
    BY <1>1, <1>2, <2>1, <2>2, Zenon DEF IInv, Typed, TypeOK
  <2>. QED  BY <1>2, <1>3, <2>3 DEF IInv, Typed
<1>8. InStep'
  BY <1>1, <1>2 DEF InStep, InSync
<1>9. Serving'
  BY <1>1, <1>2, <1>6 DEF Serving
<1>10. Ours'
  BY <1>1, <1>2 DEF Ours
<1>11. Past'
  BY <1>1, <1>2 DEF IInv, Past, Handling
<1>12. RunsOwn'
  BY <1>1, <1>2, Zenon DEF IInv, RunsOwn
<1>13. OneReplyEach'
  BY <1>1, <1>2, Zenon DEF IInv, OneReplyEach
<1>. QED  BY <1>4, <1>7, <1>8, <1>9, <1>10, <1>11, <1>12, <1>13 DEF IInv

-----------------------------------------------------------------------------
(* The theorems. *)

\* What the handler's attributes and the wire mean, at every moment of the
\* connection.
THEOREM Inductive == Spec => []IInv
<1>1. Init => IInv
  <2> SUFFICES ASSUME Init  PROVE IInv
    OBVIOUS
  <2>1. /\ sent = <<>> /\ wire = <<>> /\ replies = <<>> /\ ran = <<>> /\ read = 0
        /\ pc = "connect" /\ role \in {"admin", "dns"} /\ eof = FALSE /\ closing = FALSE
        /\ headers = None /\ body = None /\ query = None /\ user = None /\ db = "none"
    BY DEF Init
  <2>2. Typed
    <3>1. /\ sent \in Seq(Messages) /\ wire \in Seq(Items) /\ Len(sent) <= MaxMessages
          /\ replies \in Seq(Answers) /\ ran \in Seq(Runs) /\ read \in Nat
          /\ DOMAIN wire = {}
      BY <2>1, ConnectionAssumption
    <3>2. TypeOK
      BY <2>1, <3>1, Zenon DEF TypeOK
    <3>. QED  BY <3>1, <3>2 DEF Typed
  <2>3. Chained /\ RunsOwn /\ OneReplyEach /\ Past
    BY <2>1 DEF Chained, RunsOwn, OneReplyEach, Past, Handling, Answering
  <2>4. InStep
    BY <2>1 DEF InStep, AtLine, InSync, Item, Answering
  <2>5. Serving /\ Ours
    BY <2>1 DEF Serving, Ours, Handling, Answering
  <2>. QED  BY <2>2, <2>3, <2>4, <2>5 DEF IInv
<1>2. ASSUME IInv, Inner  PROVE IInv'
  <2>1. Chained'
    BY <1>2, InnerFrame, WireChained DEF IInv, Wired
  <2>. QED
    BY <1>2, <2>1, InnerTyped, InnerInStep, InnerServing, InnerOurs, InnerPast DEF IInv
<1>3. IInv /\ UNCHANGED vars => IInv'
  <2> SUFFICES ASSUME IInv, UNCHANGED vars  PROVE IInv'
    OBVIOUS
  <2>1. UNCHANGED <<role, sent, wire, eof, pc, read, headers, body, query, user, closing, db,
                    replies, ran>>
    BY DEF vars
  <2>2. Item(1)' = Item(1) /\ This' = This
    BY <2>1, Zenon DEF Item, This
  <2>3. Typed'  BY <2>1, Zenon DEF IInv, Typed, TypeOK
  <2>4. Chained'  BY <2>1, WireChained DEF IInv, Wired
  <2>5. InStep'  BY <2>1, <2>2, Zenon DEF IInv, InStep, AtLine, InSync
  <2>6. Serving'  BY <2>1, <2>2, Zenon DEF IInv, Serving, Stray
  <2>7. Ours'  BY <2>1, <2>2, Zenon DEF IInv, Ours
  <2>8. Past'  BY <2>1, Zenon DEF IInv, Past
  <2>9. RunsOwn'  BY <2>1, Zenon DEF IInv, RunsOwn
  <2>10. OneReplyEach'  BY <2>1, Zenon DEF IInv, OneReplyEach
  <2>. QED  BY <2>3, <2>4, <2>5, <2>6, <2>7, <2>8, <2>9, <2>10 DEF IInv
<1>4. IInv /\ [Next]_vars => IInv'
  BY <1>2, <1>3, NextParts, SendKeeps, ReadKeeps, BodyKeeps
<1>. QED  BY <1>1, <1>4, PTL DEF Spec

\* The handler's attributes keep their types, for any messages and users.
THEOREM TypeCorrect == Spec => []TypeOK
<1>1. IInv => TypeOK  BY DEF IInv, Typed
<1>. QED  BY <1>1, Inductive, PTL

\* On a keep-alive connection of any length, a command runs for the request
\* that asks for it, under that request's user, and once.
THEOREM RunsOwnOnly == Spec => []RunsOwn
<1>1. IInv => RunsOwn  BY DEF IInv
<1>. QED  BY <1>1, Inductive, PTL

\* do_POST keeps the connection in sync: for any messages, GET and HEAD with a
\* body and chunked bodies among them, the only bodies taken for a request line
\* are those of a GET or a HEAD and those without a Content-Length, each right
\* after its own request was answered.
THEOREM StaysInSync == Spec => []InSync
<1>1. IInv => InSync  BY DEF IInv, InStep
<1>. QED  BY <1>1, Inductive, PTL

\* The replies are one to each request, in order, but for the 400 to a body that
\* the handler left on the wire.
THEOREM RepliesOnce == Spec => []OneReplyEach
<1>1. IInv => OneReplyEach  BY DEF IInv
<1>. QED  BY <1>1, Inductive, PTL
=============================================================================
