-------------------------- MODULE EnrollmentProofs --------------------------
(***************************************************************************)
(* Proofs about Enrollment, for any tokens, names, nodes and requests.     *)
(***************************************************************************)
EXTENDS Enrollment, TLAPS

\* A request that is under way presents a token.
HasToken(q) == q.pc # "idle" => q.token \in Tokens

TypeInv == TypeOK /\ \A r \in Requests : HasToken(req[r])

LEMMA TypeInit == Init => TypeInv
  BY DEF Init, TypeInv, TypeOK, NoToken, NoNode, Fresh, TokenRow, NodeRow, Request,
         Answers, HasToken

LEMMA TypeStep == TypeInv /\ [Next]_vars => TypeInv'
<1> SUFFICES ASSUME TypeInv, [Next]_vars PROVE TypeInv'
  OBVIOUS
<1> DEFINE ReqOK == /\ req \in [Requests -> Request]
                    /\ \A r \in Requests : HasToken(req[r])
<1> USE DEF TypeInv, TypeOK
<1>1. ASSUME NEW r \in Requests, NEW q \in Request, HasToken(q), Become(r, q)
      PROVE  ReqOK'
  BY <1>1 DEF Become
<1>2. ASSUME NEW r \in Requests, NEW code \in Answers, Answer(r, code)
      PROVE  ReqOK'
  <2>1. LET q == [req[r] EXCEPT !.pc = "idle", !.answer = code]
        IN  q \in Request /\ HasToken(q)
    BY DEF Request, HasToken
  <2> QED
    BY <1>1, <1>2, <2>1 DEF Answer
<1>3. ASSUME NEW r \in Requests, NEW pc \in {"name", "probe", "create"}, Proceed(r, pc),
             req[r].pc # "idle"
      PROVE  ReqOK'
  <2>1. LET q == [req[r] EXCEPT !.pc = pc] IN q \in Request /\ HasToken(q)
    BY <1>3 DEF Request, HasToken
  <2> QED
    BY <1>1, <1>3, <2>1 DEF Proceed
<1>4. {"200", "401", "409", "422", "500"} \subseteq Answers /\ Fresh \in Request /\ HasToken(Fresh)
  BY DEF Answers, Fresh, Request, HasToken
<1>5. ASSUME NEW t \in Tokens, NEW name \in Names, Mint(t, name) PROVE TypeInv'
  BY <1>5 DEF Mint, NoToken, TokenRow
<1>6. ASSUME NEW t \in Tokens, Expire(t) PROVE TypeInv'
  BY <1>6 DEF Expire, TokenRow
<1>7. ASSUME NEW r \in Requests, NEW t \in Tokens, Begin(r, t) PROVE TypeInv'
  <2> DEFINE q == [Fresh EXCEPT !.token = t,
                     !.pc     = IF token[t].status = "open" THEN "check" ELSE "idle",
                     !.answer = IF token[t].status = "open" THEN "none" ELSE "401"]
  <2>1. q \in Request /\ HasToken(q)
    BY DEF Fresh, Request, Answers, HasToken
  <2>2. Become(r, q) /\ UNCHANGED <<token, node>>
    BY <1>7 DEF Begin
  <2> HIDE DEF q
  <2> QED
    BY <1>1, <2>1, <2>2
<1>8. ASSUME NEW r \in Requests, Check(r) PROVE TypeInv'
  BY <1>2, <1>3, <1>4, <1>8 DEF Check
<1>9. ASSUME NEW r \in Requests, CheckName(r) PROVE TypeInv'
  BY <1>2, <1>3, <1>4, <1>9 DEF CheckName
<1>10. ASSUME NEW r \in Requests, Probe(r) PROVE TypeInv'
  BY <1>2, <1>3, <1>4, <1>10 DEF Probe
<1>11. ASSUME NEW r \in Requests, Create(r) PROVE TypeInv'
  <2>1. req[r].token \in Tokens /\ NameOf(req[r].token) \in Names \cup {None}
    BY <1>11 DEF Create, HasToken, NameOf, TokenRow
  <2>2. CASE Answer(r, "500") /\ UNCHANGED node
    BY <1>2, <1>4, <1>11, <2>2 DEF Create
  <2>3. ASSUME NEW n \in Nodes,
               node' = [node EXCEPT ![n] = [status |-> "active", via |-> req[r].token,
                                            name |-> NameOf(req[r].token)]],
               Become(r, Inserted(req[r], n))
        PROVE  TypeInv'
    <3>1. Inserted(req[r], n) \in Request /\ HasToken(Inserted(req[r], n))
      BY <2>1 DEF Inserted, Request, HasToken
    <3>2. [status |-> "active", via |-> req[r].token,
           name |-> NameOf(req[r].token)] \in NodeRow
      BY <2>1 DEF NodeRow
    <3> QED
      BY <1>1, <1>11, <2>3, <3>1, <3>2 DEF Create
  <2> QED
    BY <1>11, <2>2, <2>3 DEF Create
<1>12. ASSUME NEW r \in Requests, Mark(r) PROVE TypeInv'
  BY <1>2, <1>4, <1>12 DEF Mark, TokenRow, Request
<1>13. ASSUME NEW r \in Requests, Abandon(r) PROVE TypeInv'
  BY <1>1, <1>4, <1>13 DEF Abandon
<1>14. ASSUME NEW n \in Nodes, Remove(n) PROVE TypeInv'
  BY <1>14 DEF Remove, NodeRow
<1>15. CASE UNCHANGED vars
  BY <1>15 DEF vars
<1> QED
  BY <1>5, <1>6, <1>7, <1>8, <1>9, <1>10, <1>11, <1>12, <1>13, <1>14, <1>15 DEF Next, Step

\* Every variable keeps its shape.
THEOREM TypeCorrect == Spec => []TypeOK
<1>1. Spec => []TypeInv
  BY TypeInit, TypeStep, PTL DEF Spec
<1> QED
  BY <1>1, PTL DEF TypeInv

-----------------------------------------------------------------------------
(* Why a token registers one node: a row carries the name of the token that *)
(* inserted it, and no two rows carry the same name.                        *)

RowLinked(n) ==
  /\ node[n].via \in Tokens
  /\ token[node[n].via].status # "none"
  /\ node[n].name = NameOf(node[n].via)

TokenLinked(t) ==
  token[t].status = "used" =>
    token[t].nodeId \in Rows /\ node[token[t].nodeId].via = t

\* What a request knows of its token and of the row it inserted stays true.
RequestLinked(q) ==
  /\ q.pc # "idle" => token[q.token].status # "none" /\ q.answer = "none"
  /\ q.pc = "mark" => q.node \in Rows /\ node[q.node].via = q.token
  /\ q.answer = "200" => /\ q.token \in Tokens
                         /\ token[q.token].status = "used"
                         /\ token[q.token].nodeId = q.node

UniqueNames == \A m, n \in Rows : node[m].name = node[n].name => m = n

Linked ==
  /\ UniqueNames
  /\ \A n \in Rows : RowLinked(n)
  /\ \A t \in Tokens : TokenLinked(t)
  /\ \A r \in Requests : RequestLinked(req[r])

LEMMA LinkedInit == Init => Linked
  BY DEF Init, Linked, UniqueNames, Rows, RowLinked, TokenLinked, RequestLinked, NoToken,
         NoNode, Fresh

\* The row a token names and the row a request inserted with it are the same.
LEMMA SameRow ==
  ASSUME Linked, NEW m \in Rows, NEW n \in Rows, node[m].via = node[n].via
  PROVE  m = n
  BY DEF Linked, UniqueNames, RowLinked

\* A step of one request, with the two tables left alone.
LEMMA LinkedRequest ==
  ASSUME TypeInv, Linked, NEW r \in Requests, NEW q \in Request, Become(r, q),
         RequestLinked(q), UNCHANGED <<token, node>>
  PROVE  Linked'
<1>1. UniqueNames' /\ (\A n \in Rows : RowLinked(n))' /\ (\A t \in Tokens : TokenLinked(t))'
  BY DEF Linked, UniqueNames, Rows, RowLinked, TokenLinked, NameOf
<1>2. ASSUME NEW s \in Requests PROVE RequestLinked(req[s])'
  <2>1. req'[s] = IF s = r THEN q ELSE req[s]
    BY DEF Become, TypeInv, TypeOK
  <2> QED
    BY <2>1 DEF Linked, RequestLinked, Rows
<1> QED
  BY <1>1, <1>2 DEF Linked

LEMMA LinkedStep == TypeInv /\ Linked /\ [Next]_vars => Linked'
<1> SUFFICES ASSUME TypeInv, Linked, [Next]_vars PROVE Linked'
  OBVIOUS
<1>1. ASSUME NEW r \in Requests, NEW code \in Answers \ {"none", "200"}, Answer(r, code),
             UNCHANGED <<token, node>>
      PROVE  Linked'
  <2>1. LET q == [req[r] EXCEPT !.pc = "idle", !.answer = code]
        IN  q \in Request /\ RequestLinked(q)
    BY DEF TypeInv, TypeOK, Request, RequestLinked
  <2> QED
    BY <1>1, <2>1, LinkedRequest DEF Answer
<1>2. ASSUME NEW r \in Requests, NEW pc \in {"name", "probe", "create"}, Proceed(r, pc),
             req[r].pc # "idle", UNCHANGED <<token, node>>
      PROVE  Linked'
  <2>1. LET q == [req[r] EXCEPT !.pc = pc] IN q \in Request /\ RequestLinked(q)
    BY <1>2 DEF TypeInv, TypeOK, Request, RequestLinked, Linked
  <2> QED
    BY <1>2, <2>1, LinkedRequest DEF Proceed
<1>3. {"401", "409", "422", "500"} \subseteq Answers \ {"none", "200"}
  BY DEF Answers
<1>4. ASSUME NEW t \in Tokens, NEW name \in Names, Mint(t, name) PROVE Linked'
  <2>1. token[t].status = "none" /\ UNCHANGED <<node, req>>
    BY <1>4 DEF Mint
  <2>2. /\ \A u \in Tokens : u # t => token'[u] = token[u]
        /\ token'[t].status = "open"
    BY <1>4 DEF Mint, NoToken, TypeInv, TypeOK, TokenRow
  <2>3. UniqueNames' /\ (\A n \in Rows : RowLinked(n))'
    BY <2>1, <2>2 DEF Linked, UniqueNames, Rows, RowLinked, NameOf
  <2>4. (\A u \in Tokens : TokenLinked(u))'
    BY <2>1, <2>2 DEF Linked, Rows, TokenLinked
  <2>5. (\A r \in Requests : RequestLinked(req[r]))'
    BY <2>1, <2>2 DEF Linked, Rows, RequestLinked, TypeInv, HasToken
  <2> QED
    BY <2>3, <2>4, <2>5 DEF Linked
<1>5. ASSUME NEW t \in Tokens, Expire(t) PROVE Linked'
  <2>1. /\ \A u \in Tokens : /\ token'[u].status = token[u].status
                             /\ token'[u].name = token[u].name
                             /\ token'[u].nodeId = token[u].nodeId
        /\ UNCHANGED <<node, req>>
    BY <1>5 DEF Expire, TypeInv, TypeOK, TokenRow
  <2>2. UniqueNames' /\ (\A n \in Rows : RowLinked(n))'
    BY <2>1 DEF Linked, UniqueNames, Rows, RowLinked, NameOf
  <2>3. (\A u \in Tokens : TokenLinked(u))'
    BY <2>1 DEF Linked, Rows, TokenLinked
  <2>4. (\A r \in Requests : RequestLinked(req[r]))'
    BY <2>1 DEF Linked, Rows, RequestLinked, TypeInv, HasToken
  <2> QED
    BY <2>2, <2>3, <2>4 DEF Linked
<1>6. ASSUME NEW r \in Requests, NEW t \in Tokens, Begin(r, t) PROVE Linked'
  <2> DEFINE q == [Fresh EXCEPT !.token = t,
                     !.pc     = IF token[t].status = "open" THEN "check" ELSE "idle",
                     !.answer = IF token[t].status = "open" THEN "none" ELSE "401"]
  <2>1. q \in Request /\ RequestLinked(q)
    BY DEF Fresh, Request, Answers, RequestLinked
  <2>2. Become(r, q) /\ UNCHANGED <<token, node>>
    BY <1>6 DEF Begin
  <2> HIDE DEF q
  <2> QED
    BY <2>1, <2>2, LinkedRequest
<1>7. ASSUME NEW r \in Requests, Check(r) PROVE Linked'
  BY <1>1, <1>2, <1>3, <1>7 DEF Check
<1>8. ASSUME NEW r \in Requests, CheckName(r) PROVE Linked'
  BY <1>1, <1>2, <1>3, <1>8 DEF CheckName
<1>9. ASSUME NEW r \in Requests, Probe(r) PROVE Linked'
  BY <1>1, <1>2, <1>3, <1>9 DEF Probe
<1>10. ASSUME NEW r \in Requests, Create(r) PROVE Linked'
  <2>1. CASE Answer(r, "500") /\ UNCHANGED node
    BY <1>1, <1>3, <1>10, <2>1 DEF Create
  <2>2. ASSUME NEW n \in Nodes \ Rows, ~ Conflicts(NameOf(req[r].token)),
               node' = [node EXCEPT ![n] = [status |-> "active", via |-> req[r].token,
                                            name |-> NameOf(req[r].token)]],
               Become(r, Inserted(req[r], n))
        PROVE  Linked'
    <3>1. /\ req[r].pc = "create" /\ req[r].token \in Tokens
          /\ token[req[r].token].status # "none"
          /\ UNCHANGED token
      BY <1>10 DEF Create, TypeInv, HasToken, Linked, RequestLinked
    <3>2. /\ Rows' = Rows \cup {n}
          /\ \A m \in Rows : node'[m] = node[m]
          /\ node'[n].via = req[r].token /\ node'[n].name = NameOf(req[r].token)
      BY <2>2 DEF Rows, TypeInv, TypeOK
    <3>3. \A m \in Rows : node[m].name # NameOf(req[r].token)
      BY <2>2 DEF Conflicts, Registered
    <3>4. UniqueNames'
      BY <3>2, <3>3 DEF Linked, UniqueNames
    <3>5. (\A m \in Rows : RowLinked(m))'
      BY <3>1, <3>2 DEF Linked, RowLinked, NameOf
    <3>6. (\A t \in Tokens : TokenLinked(t))'
      BY <3>1, <3>2 DEF Linked, TokenLinked
    <3>7. ASSUME NEW s \in Requests PROVE RequestLinked(req[s])'
      <4>1. CASE s = r
        <5>1. /\ req'[r].pc = "mark" /\ req'[r].node = n
              /\ req'[r].token = req[r].token /\ req'[r].answer = req[r].answer
          BY <2>2 DEF Become, Inserted, TypeInv, TypeOK, Request
        <5> QED
          BY <3>1, <3>2, <4>1, <5>1 DEF RequestLinked, Linked
      <4>2. CASE s # r
        <5>1. req'[s] = req[s]
          BY <2>2, <4>2 DEF Become, TypeInv, TypeOK
        <5> QED
          BY <3>1, <3>2, <5>1 DEF RequestLinked, Linked
      <4> QED
        BY <4>1, <4>2
    <3> QED
      BY <3>4, <3>5, <3>6, <3>7 DEF Linked
  <2> QED
    BY <1>10, <2>1, <2>2 DEF Create
<1>11. ASSUME NEW r \in Requests, Mark(r) PROVE Linked'
  <2> DEFINE t == req[r].token
  <2>1. /\ t \in Tokens /\ token[t].status # "none" /\ UNCHANGED node
        /\ req[r].node \in Rows /\ node[req[r].node].via = t
    BY <1>11 DEF Mark, TypeInv, HasToken, Linked, RequestLinked
  <2>2. /\ \A u \in Tokens : u # t => token'[u] = token[u]
        /\ \A u \in Tokens : token'[u].name = token[u].name
        /\ token'[t].status = "used" /\ token'[t].nodeId = req[r].node
    BY <1>11, <2>1 DEF Mark, Spent, TypeInv, TypeOK, TokenRow
  <2>3. /\ \A s \in Requests : s # r => req'[s] = req[s]
        /\ req'[r].pc = "idle" /\ req'[r].answer = "200"
        /\ req'[r].token = t /\ req'[r].node = req[r].node
    BY <1>11 DEF Mark, Answer, Become, TypeInv, TypeOK, Request
  <2>4. token[t].status = "used" => token[t].nodeId = req[r].node
    BY <2>1, SameRow DEF Linked, TokenLinked
  <2> HIDE DEF t
  <2>5. UniqueNames' /\ (\A n \in Rows : RowLinked(n))'
    BY <2>1, <2>2 DEF Linked, UniqueNames, Rows, RowLinked, NameOf
  <2>6. (\A u \in Tokens : TokenLinked(u))'
    BY <2>1, <2>2 DEF Linked, Rows, TokenLinked
  <2>7. ASSUME NEW s \in Requests PROVE RequestLinked(req[s])'
    <3>1. CASE s = r
      BY <2>1, <2>2, <2>3, <3>1 DEF RequestLinked
    <3>2. CASE s # r
      <4>1. req'[s] = req[s] /\ Rows' = Rows /\ RequestLinked(req[s])
        BY <2>1, <2>3, <3>2 DEF Linked, Rows
      <4>2. req[s].pc # "idle" => req[s].token \in Tokens
        BY DEF TypeInv, HasToken
      <4> QED
        BY <2>1, <2>2, <2>4, <4>1, <4>2 DEF RequestLinked
    <3> QED
      BY <3>1, <3>2
  <2> QED
    BY <2>5, <2>6, <2>7 DEF Linked
<1>12. ASSUME NEW r \in Requests, Abandon(r) PROVE Linked'
  <2>1. Fresh \in Request /\ RequestLinked(Fresh)
    BY DEF Fresh, Request, Answers, RequestLinked
  <2> QED
    BY <1>12, <2>1, LinkedRequest DEF Abandon
<1>13. ASSUME NEW n \in Nodes, Remove(n) PROVE Linked'
  <2>1. /\ \A m \in Nodes : node'[m].via = node[m].via /\ node'[m].name = node[m].name
        /\ Rows' = Rows /\ UNCHANGED <<token, req>>
    BY <1>13 DEF Remove, Rows, TypeInv, TypeOK, NodeRow
  <2>2. Rows \subseteq Nodes
    BY DEF Rows
  <2>3. UniqueNames' /\ (\A m \in Rows : RowLinked(m))'
    BY <2>1, <2>2 DEF Linked, UniqueNames, RowLinked, NameOf
  <2>4. (\A t \in Tokens : TokenLinked(t))' /\ (\A r \in Requests : RequestLinked(req[r]))'
    BY <2>1, <2>2 DEF Linked, TokenLinked, RequestLinked
  <2> QED
    BY <2>3, <2>4 DEF Linked
<1>14. CASE UNCHANGED vars
  BY <1>14 DEF vars, Linked, UniqueNames, Rows, RowLinked, TokenLinked, RequestLinked, NameOf
<1> QED
  BY <1>4, <1>5, <1>6, <1>7, <1>8, <1>9, <1>10, <1>11, <1>12, <1>13, <1>14 DEF Next, Step

\* A token is single-use however the enrollments that present it interleave and
\* wherever the control plane restarts; a used token names the node it
\* registered; and a node that was told so stays that node.
THEOREM SingleUse ==
  Spec => [](OneNodePerToken /\ UsedTokenNamesItsNode /\ WinnerKeepsItsToken)
<1>1. Spec => [](TypeInv /\ Linked)
  BY TypeInit, TypeStep, LinkedInit, LinkedStep, PTL DEF Spec
<1>2. TypeInv /\ Linked => OneNodePerToken
  BY DEF Linked, UniqueNames, RowLinked, OneNodePerToken
<1>3. TypeInv /\ Linked => UsedTokenNamesItsNode
  BY DEF Linked, RowLinked, TokenLinked, UsedTokenNamesItsNode
<1>4. TypeInv /\ Linked => WinnerKeepsItsToken
  BY DEF Linked, RequestLinked, WinnerKeepsItsToken
<1> QED
  BY <1>1, <1>2, <1>3, <1>4, PTL

=============================================================================
