-------------------------- MODULE NodesPageProofs --------------------------
(***************************************************************************)
(* Theorems about NodesPage, for any names, tokens and bound: every        *)
(* variable keeps its shape, and a page has one removal of a node under    *)
(* way at most.                                                            *)
(***************************************************************************)
EXTENDS NodesPage, SequenceTheorems, TLAPS

-----------------------------------------------------------------------------
(* The inductive invariant *)

Dialogs == [open: BOOLEAN, command: Tokens \cup {None}, error: BOOLEAN]

\* A call that answers to a row's menu is a removal.
Sound(h) ==
  /\ h.from = "row" => h.op = "remove"
  /\ h.op = "remove" => h.from \in {"row", "gone"}

\* The row whose removal is to be confirmed has none pending.
Inv ==
  /\ TypeOK /\ OneRemovalAtATime
  /\ \A k \in 1 .. Len(calls) : Sound(calls[k])
  /\ confirming # None => confirming \notin removing

-----------------------------------------------------------------------------
(* Queues of calls *)

\* A queue keeps its calls when they lose the parts they answer to.
LEMMA KeptCalls ==
  ASSUME NEW q \in Seq(Calls), NEW parts
  PROVE  /\ Kept(q, parts) \in Seq(Calls) /\ Len(Kept(q, parts)) = Len(q)
         /\ \A k \in 1 .. Len(q) :
              /\ Kept(q, parts)[k] \in Calls
              /\ Kept(q, parts)[k].op = q[k].op /\ Kept(q, parts)[k].name = q[k].name
              /\ Kept(q, parts)[k].from = IF q[k].from \in parts THEN q[k].from ELSE "gone"
<1> DEFINE r == Kept(q, parts)
<1>1. ASSUME NEW k \in 1 .. Len(q)
      PROVE  /\ r[k] \in Calls /\ r[k].op = q[k].op /\ r[k].name = q[k].name
             /\ r[k].from = IF q[k].from \in parts THEN q[k].from ELSE "gone"
  <2>1. q[k] \in Calls
    BY ElementOfSeq
  <2>2. CASE q[k].from \in parts
    BY <2>1, <2>2 DEF Kept
  <2>3. CASE q[k].from \notin parts
    <3>1. r[k] = [q[k] EXCEPT !.from = "gone"]
      BY <2>3 DEF Kept
    <3> QED BY <2>1, <2>3, <3>1 DEF Calls
  <2> QED BY <2>2, <2>3
<1>2. r \in [1 .. Len(q) -> Calls]
  BY <1>1 DEF Kept
<1>3. Len(q) \in Nat
  BY LenProperties
<1>4. r \in Seq(Calls)
  BY <1>2, <1>3, IsASeq
<1>5. DOMAIN r = 1 .. Len(q)
  BY DEF Kept
<1>6. Len(r) = Len(q)
  BY <1>3, <1>4, <1>5, LenProperties
<1> QED BY <1>1, <1>4, <1>6

\* The head of the queue, and what is behind it.
LEMMA HeadTail ==
  ASSUME NEW q \in Seq(Calls), q # <<>>
  PROVE  /\ Head(q) \in Calls /\ Head(q) = q[1] /\ 1 \in 1 .. Len(q)
         /\ Tail(q) \in Seq(Calls) /\ Len(Tail(q)) = Len(q) - 1 /\ Len(q) \in Nat
         /\ \A k \in 1 .. Len(Tail(q)) : k + 1 \in 1 .. Len(q) /\ Tail(q)[k] = q[k + 1]
<1>1. /\ Len(Tail(q)) = Len(q) - 1 /\ Len(q) \in Nat /\ Len(q) > 0 /\ Head(q) = q[1]
      /\ \A k \in 1 .. Len(Tail(q)) : Tail(q)[k] = q[k + 1]
      /\ Tail(q) \in Seq(Calls) /\ Head(q) \in Calls
  BY HeadTailProperties, LenProperties, EmptySeq
<1> QED BY <1>1

\* Sending a call.
LEMMA Sent ==
  ASSUME calls \in Seq(Calls), others \in Nat, NEW h \in Calls, Send(h)
  PROVE  /\ calls' \in Seq(Calls) /\ Len(calls') = Len(calls) + 1 /\ Len(calls) \in Nat
         /\ Len(calls') + others <= MaxPending
         /\ calls'[Len(calls) + 1] = h
         /\ \A k \in 1 .. Len(calls) : calls'[k] = calls[k]
<1>1. calls' = Append(calls, h) /\ Len(calls) + others < MaxPending
  BY DEF Send
<1>2. Len(calls) \in Nat /\ MaxPending \in Nat
  BY LenProperties, NodesPageAssumption
<1> QED BY <1>1, <1>2, AppendProperties

\* A page that is rendered is one.
LEMMA RenderedTyped ==
  ASSUME claims \in Roles, NEW t \in [Names -> NodeRow]
  PROVE  Rendered(t) \in [role: Roles, rows: [Names -> NodeRow]]
  BY DEF Rendered, NoPage, NoNode, NodeRow, Roles

\* A closed dialog is one.
LEMMA ClosedTyped == Closed \in Dialogs
  BY DEF Closed, Dialogs

\* The effects keep the tables.
LEMMA WriteTyped ==
  ASSUME TypeOK, NEW h \in Calls
  PROVE  /\ Remove(h) => node' \in [Names -> NodeRow] /\ token' \in [Tokens -> Names \cup {None}]
         /\ \A t \in Tokens :
              Mint(h, t) => node' = node /\ token' \in [Tokens -> Names \cup {None}]
<1>1. h.name \in Names /\ node \in [Names -> NodeRow] /\ token \in [Tokens -> Names \cup {None}]
  BY DEF Calls, TypeOK
<1>2. ASSUME Remove(h)
      PROVE  node' \in [Names -> NodeRow] /\ token' = token
  <2>1. token' = token /\ node' = [node EXCEPT ![h.name].status = "disabled"]
    BY <1>2 DEF Remove
  <2>2. \A n \in Names : node'[n] = IF n = h.name THEN [node[n] EXCEPT !.status = "disabled"] ELSE node[n]
    BY <1>1, <2>1
  <2>3. ASSUME NEW n \in Names
        PROVE  node'[n] \in NodeRow
    <3>1. node[n] \in NodeRow
      BY <1>1
    <3> QED BY <2>2, <3>1 DEF NodeRow
  <2>4. node' = [n \in Names |-> node'[n]]
    BY <1>1, <2>1
  <2> QED BY <2>1, <2>3, <2>4
<1>3. ASSUME NEW t \in Tokens, Mint(h, t)
      PROVE  node' = node /\ token' \in [Tokens -> Names \cup {None}]
  BY <1>1, <1>3 DEF Mint
<1> QED BY <1>1, <1>2, <1>3

-----------------------------------------------------------------------------
(* The queue part of the invariant *)

\* A call is sent: a removal for a row that has none pending, which it has now.
LEMMA SendSound ==
  ASSUME Inv, NEW h \in Calls, Send(h), Sound(h), UNCHANGED <<node, others>>,
         \/ h.from = "row" /\ h.name \notin removing /\ removing' = removing \cup {h.name}
         \/ h.from # "row" /\ removing' = removing
  PROVE  /\ calls' \in Seq(Calls) /\ Len(calls') + others' <= MaxPending
         /\ OneRemovalAtATime' /\ \A k \in 1 .. Len(calls') : Sound(calls'[k])
<1> PICK m : m = Len(calls)
  OBVIOUS
<1>0. /\ calls' \in Seq(Calls) /\ Len(calls') = m + 1 /\ m \in Nat
      /\ Len(calls') + others <= MaxPending /\ calls'[m + 1] = h
      /\ \A k \in 1 .. m : calls'[k] = calls[k]
  BY Sent DEF Inv, TypeOK
<1>1. \A k \in 1 .. m + 1 : k \in 1 .. m \/ k = m + 1
  BY <1>0
<1>2. \A k \in 1 .. Len(calls') : Sound(calls'[k])
  BY <1>0, <1>1 DEF Inv
<1>3. \A k \in 1 .. m : calls[k].from = "row" => calls[k].name \in removing
  <2>1. \A k \in 1 .. m : calls[k] \in Calls
    BY ElementOfSeq DEF Inv, TypeOK
  <2>2. \A k \in 1 .. m : calls[k].name \in Names
    BY <2>1 DEF Calls
  <2> QED BY <2>2 DEF Inv, OneRemovalAtATime
<1>4. ASSUME NEW j \in 1 .. Len(calls'), NEW k \in 1 .. Len(calls'), calls'[j].from = "row",
             calls'[k].from = "row", calls'[j].name = calls'[k].name
      PROVE  j = k
  <2>1. CASE j \in 1 .. m /\ k \in 1 .. m
    BY <1>0, <1>4, <2>1 DEF Inv, OneRemovalAtATime
  <2>2. CASE (j = m + 1 /\ k \in 1 .. m) \/ (k = m + 1 /\ j \in 1 .. m)
    BY <1>0, <1>3, <1>4, <2>2
  <2> QED BY <1>0, <1>1, <2>1, <2>2
<1>5. ASSUME NEW n \in Names
      PROVE  n \in removing' <=> \E k \in 1 .. Len(calls') : calls'[k].from = "row" /\ calls'[k].name = n
  <2>1. (\E k \in 1 .. m + 1 : calls'[k].from = "row" /\ calls'[k].name = n)
           <=> \/ \E k \in 1 .. m : calls[k].from = "row" /\ calls[k].name = n
               \/ h.from = "row" /\ h.name = n
    BY <1>0, <1>1
  <2>2. n \in removing <=> \E k \in 1 .. m : calls[k].from = "row" /\ calls[k].name = n
    BY DEF Inv, OneRemovalAtATime
  <2>3. n \in removing' <=> n \in removing \/ (h.from = "row" /\ h.name = n)
    OBVIOUS
  <2> QED BY <1>0, <2>1, <2>2, <2>3
<1> QED BY <1>0, <1>2, <1>4, <1>5 DEF OneRemovalAtATime

\* A call has ended, and the page has its rows still or not.
LEMMA Popped ==
  ASSUME Inv, calls # <<>>, calls' \in Seq(Calls), Len(calls') = Len(calls) - 1, NEW rows \in BOOLEAN,
         \A k \in 1 .. Len(calls') :
           /\ calls'[k].op = calls[k + 1].op /\ calls'[k].name = calls[k + 1].name
           /\ calls'[k].from = "row" <=> rows /\ calls[k + 1].from = "row"
           /\ calls'[k].from \in {calls[k + 1].from, "gone"},
         removing' = IF rows THEN removing \ Settled(Head(calls)) ELSE {}
  PROVE  OneRemovalAtATime' /\ \A k \in 1 .. Len(calls') : Sound(calls'[k])
<1> PICK m : m = Len(calls')
  OBVIOUS
<1> PICK h : h = Head(calls)
  OBVIOUS
<1>0. /\ m \in Nat /\ Len(calls) = m + 1 /\ h \in Calls /\ h = calls[1] /\ 1 \in 1 .. m + 1
      /\ \A k \in 1 .. m : k + 1 \in 1 .. m + 1
      /\ \A k \in 1 .. m + 1 : calls[k] \in Calls
  <2>1. calls \in Seq(Calls)
    BY DEF Inv, TypeOK
  <2>2. Len(calls) \in Nat /\ Len(calls) > 0
    BY <2>1, HeadTail
  <2>3. h \in Calls /\ h = calls[1]
    BY <2>1, HeadTail
  <2> QED BY <2>1, <2>2, <2>3, ElementOfSeq
<1>1. ASSUME NEW k \in 1 .. m
      PROVE  Sound(calls'[k])
  <2>1. Sound(calls[k + 1]) /\ calls[k + 1].name \in Names
    BY <1>0 DEF Inv, Calls
  <2> QED BY <2>1 DEF Sound
<1>2. ASSUME NEW j \in 1 .. m, NEW k \in 1 .. m, calls'[j].from = "row",
             calls'[k].from = "row", calls'[j].name = calls'[k].name
      PROVE  j = k
  <2>1. j + 1 = k + 1
    BY <1>0, <1>2 DEF Inv, OneRemovalAtATime
  <2> QED BY <2>1
<1>3. h.from = "row" => h.op = "remove"
  BY <1>0 DEF Inv, Sound
<1>4. ASSUME NEW n \in Names
      PROVE  n \in removing' <=> \E k \in 1 .. m : calls'[k].from = "row" /\ calls'[k].name = n
  <2>1. n \in removing <=> \E k \in 1 .. m + 1 : calls[k].from = "row" /\ calls[k].name = n
    BY <1>0 DEF Inv, OneRemovalAtATime
  <2>2. CASE ~rows
    BY <2>2
  <2>3. CASE rows /\ \E k \in 1 .. m : calls'[k].from = "row" /\ calls'[k].name = n
    <3>1. PICK k \in 1 .. m : calls[k + 1].from = "row" /\ calls[k + 1].name = n
      BY <2>3
    <3>2. k + 1 \in 1 .. m + 1 /\ k + 1 # 1
      BY <1>0
    <3>3. n \in removing /\ ~(h.from = "row" /\ h.name = n)
      BY <1>0, <2>1, <3>1, <3>2 DEF Inv, OneRemovalAtATime
    <3> QED BY <2>3, <3>3 DEF Settled
  <2>4. CASE rows /\ n \in removing'
    <3>1. n \in removing /\ ~(h.from = "row" /\ h.name = n)
      BY <1>3, <2>4 DEF Settled
    <3>2. PICK k \in 1 .. m + 1 : calls[k].from = "row" /\ calls[k].name = n
      BY <2>1, <3>1
    <3>3. k # 1
      BY <1>0, <3>1, <3>2
    <3>4. k - 1 \in 1 .. m /\ (k - 1) + 1 = k
      BY <1>0, <3>3
    <3>5. calls'[k - 1].from = "row" /\ calls'[k - 1].name = n
      BY <2>4, <3>2, <3>4
    <3> QED BY <2>4, <3>4, <3>5
  <2> QED BY <2>2, <2>3, <2>4
<1> QED BY <1>1, <1>2, <1>4 DEF OneRemovalAtATime

-----------------------------------------------------------------------------
(* The actions *)

\* A page not opened yet has nothing under way.
LEMMA InitSound ==
  ASSUME Init
  PROVE  Inv
<1>1. node \in [Names -> NodeRow]
  <2> PICK rows : rows = {NoNode, [status |-> "active", live |-> FALSE], [status |-> "active", live |-> TRUE]}
    OBVIOUS
  <2>1. rows \subseteq NodeRow
    BY DEF NoNode, NodeRow
  <2> QED BY <2>1 DEF Init
<1>2. dialog \in [Spots -> Dialogs]
  BY ClosedTyped DEF Init
<1>3. page \in [role: Roles, rows: [Names -> NodeRow]]
  BY DEF Init, NoPage, NoNode, NodeRow, Roles
<1>4. calls \in Seq(Calls) /\ Len(calls) = 0 /\ others = 0
  BY EmptySeq DEF Init
<1>5. token \in [Tokens -> Names \cup {None}] /\ claims \in Roles /\ confirming = None /\ removing = {}
  BY DEF Init
<1>6. TypeOK
  BY <1>1, <1>2, <1>3, <1>4, <1>5, NodesPageAssumption DEF TypeOK, Dialogs
<1>7. \A k \in 1 .. Len(calls) : FALSE
  BY <1>4
<1> QED BY <1>5, <1>6, <1>7 DEF Inv, OneRemovalAtATime

\* The page is rendered again after a call.
LEMMA RefreshSound ==
  ASSUME Inv, calls # <<>>, NEW d \in [Spots -> Dialogs], Refresh(d), UNCHANGED <<claims, others>>,
         node' \in [Names -> NodeRow], token' \in [Tokens -> Names \cup {None}]
  PROVE  Inv'
<1> PICK p : p = Rendered(node')
  OBVIOUS
<1> PICK parts : parts = Parts(p)
  OBVIOUS
<1>1. /\ page' = p /\ dialog' = [i \in Spots |-> IF i \in parts THEN d[i] ELSE Closed]
      /\ confirming' = (IF "row" \in parts THEN confirming ELSE None)
      /\ removing' = (IF "row" \in parts THEN removing \ Settled(Head(calls)) ELSE {})
      /\ calls' = Kept(Tail(calls), parts)
  BY DEF Refresh
<1>2. p \in [role: Roles, rows: [Names -> NodeRow]]
  BY RenderedTyped DEF Inv, TypeOK
<1>3. dialog' \in [Spots -> Dialogs]
  BY <1>1, ClosedTyped
<1>4. PICK rest \in Seq(Calls) :
        /\ rest = Tail(calls) /\ Len(rest) = Len(calls) - 1 /\ Len(calls) \in Nat
        /\ \A k \in 1 .. Len(rest) : rest[k] = calls[k + 1]
  BY HeadTail DEF Inv, TypeOK
<1>5. PICK q : q = Kept(rest, parts)
  OBVIOUS
<1>6. /\ q \in Seq(Calls) /\ Len(q) = Len(rest)
      /\ \A k \in 1 .. Len(rest) :
           /\ q[k].op = rest[k].op /\ q[k].name = rest[k].name
           /\ q[k].from = IF rest[k].from \in parts THEN rest[k].from ELSE "gone"
  BY <1>5, KeptCalls
<1>7. calls' = q
  BY <1>1, <1>4, <1>5
<1>8. Len(rest) = Len(calls) - 1 /\ Len(calls) \in Nat
  BY <1>4
<1>9. \A k \in 1 .. Len(rest) : rest[k] = calls[k + 1]
  BY <1>4
<1>10. calls' \in Seq(Calls) /\ Len(calls') = Len(calls) - 1 /\ Len(calls) \in Nat
  BY <1>6, <1>7, <1>8
<1>11. ASSUME NEW k \in 1 .. Len(calls')
      PROVE  /\ calls'[k].op = calls[k + 1].op /\ calls'[k].name = calls[k + 1].name
               /\ calls'[k].from = IF calls[k + 1].from \in parts THEN calls[k + 1].from ELSE "gone"
  BY <1>6, <1>7, <1>9
<1>12. OneRemovalAtATime' /\ \A k \in 1 .. Len(calls') : Sound(calls'[k])
  <2>1. ("row" \in parts) \in BOOLEAN
    OBVIOUS
  <2>2. \A k \in 1 .. Len(calls') :
          /\ calls'[k].op = calls[k + 1].op /\ calls'[k].name = calls[k + 1].name
          /\ calls'[k].from = "row" <=> ("row" \in parts) /\ calls[k + 1].from = "row"
          /\ calls'[k].from \in {calls[k + 1].from, "gone"}
    BY <1>11
  <2> QED BY <1>1, <1>10, <2>1, <2>2, Popped
<1>13. others' \in Nat /\ Len(calls') + others' <= MaxPending /\ claims' \in Roles
  BY <1>10, NodesPageAssumption DEF Inv, TypeOK
<1>14. /\ confirming' \in Names \cup {None} /\ removing' \subseteq Names
      /\ confirming' # None => confirming' \notin removing'
  BY <1>1 DEF Inv, TypeOK
<1> QED BY <1>1, <1>2, <1>3, <1>10, <1>12, <1>13, <1>14 DEF Inv, TypeOK, Dialogs

\* A server action that has gone through, or failed.
LEMMA ServeSound ==
  ASSUME Inv, Serve
  PROVE  Inv'
<1> PICK h : h = Head(calls)
  OBVIOUS
<1>0. calls # <<>> => h \in Calls
  BY HeadTail DEF Inv, TypeOK
<1>1. ASSUME NEW t \in Tokens, Minted(t)
      PROVE  Inv'
  <2>1. calls # <<>> /\ Mint(h, t) /\ UNCHANGED <<claims, others>>
    BY <1>1 DEF Minted
  <2> PICK d : d = Answered(h, t)
    OBVIOUS
  <2>2. d \in [Spots -> Dialogs]
    <3>1. \A i \in Spots : dialog[i] \in Dialogs
      BY DEF Inv, TypeOK, Dialogs
    <3>2. \A i \in Spots : [open |-> dialog[i].open, command |-> t, error |-> FALSE] \in Dialogs
      BY <3>1 DEF Dialogs
    <3> QED BY <3>1, <3>2 DEF Answered
  <2>3. Refresh(d)
    BY <1>1 DEF Minted
  <2>4. node' = node /\ token' \in [Tokens -> Names \cup {None}]
    BY <1>0, <2>1, WriteTyped DEF Inv
  <2> QED BY <2>1, <2>2, <2>3, <2>4, RefreshSound DEF Inv, TypeOK
<1>2. CASE Removed
  <2>1. calls # <<>> /\ Remove(h) /\ Refresh(dialog) /\ UNCHANGED <<claims, others>>
    BY <1>2 DEF Removed
  <2>2. dialog \in [Spots -> Dialogs]
    BY DEF Inv, TypeOK, Dialogs
  <2>3. node' \in [Names -> NodeRow] /\ token' \in [Tokens -> Names \cup {None}]
    BY <1>0, <2>1, WriteTyped DEF Inv
  <2> QED BY <2>1, <2>2, <2>3, RefreshSound
<1>3. CASE Fail
  <2>1. /\ calls # <<>> /\ calls' = Tail(calls) /\ removing' = removing \ Settled(h)
        /\ UNCHANGED <<claims, page, confirming, others>>
    BY <1>3 DEF Fail
  <2>2. node' \in [Names -> NodeRow] /\ token' \in [Tokens -> Names \cup {None}]
    <3>1. CASE UNCHANGED <<node, token>>
      BY <3>1 DEF Inv, TypeOK
    <3>2. CASE Remove(h) \/ \E t \in Tokens : Mint(h, t)
      BY <1>0, <2>1, <3>2, WriteTyped DEF Inv, TypeOK
    <3> QED BY <1>3, <3>1, <3>2 DEF Fail
  <2>3. dialog' \in [Spots -> Dialogs]
    <3>1. dialog \in [Spots -> Dialogs]
      BY DEF Inv, TypeOK, Dialogs
    <3>2. ASSUME NEW i \in Spots
          PROVE  [dialog EXCEPT ![i].error = TRUE] \in [Spots -> Dialogs]
      BY <3>1 DEF Dialogs
    <3> QED BY <1>3, <3>1, <3>2 DEF Fail
  <2>4. /\ calls' \in Seq(Calls) /\ Len(calls') = Len(calls) - 1 /\ Len(calls) \in Nat
        /\ \A k \in 1 .. Len(calls') : calls'[k] = calls[k + 1]
    BY <2>1, HeadTail DEF Inv, TypeOK
  <2>5. OneRemovalAtATime' /\ \A k \in 1 .. Len(calls') : Sound(calls'[k])
    <3>1. removing' = IF TRUE THEN removing \ Settled(Head(calls)) ELSE {}
      BY <2>1
    <3>2. \A k \in 1 .. Len(calls') :
            /\ calls'[k].op = calls[k + 1].op /\ calls'[k].name = calls[k + 1].name
             /\ calls'[k].from = "row" <=> TRUE /\ calls[k + 1].from = "row"
            /\ calls'[k].from \in {calls[k + 1].from, "gone"}
      BY <2>4
    <3> QED BY <2>1, <2>2, <2>4, <3>1, <3>2, Popped
  <2>6. others' \in Nat /\ Len(calls') + others' <= MaxPending
    BY <2>1, <2>4, NodesPageAssumption DEF Inv, TypeOK
  <2> QED BY <2>1, <2>2, <2>3, <2>4, <2>5, <2>6 DEF Inv, TypeOK, Dialogs
<1> QED BY <1>1, <1>2, <1>3 DEF Serve

\* What the person at the browser does.
LEMMA BrowseSound ==
  ASSUME Inv, Browse
  PROVE  Inv'
<1>0. /\ node \in [Names -> NodeRow] /\ calls \in Seq(Calls) /\ dialog \in [Spots -> Dialogs]
      /\ confirming \in Names \cup {None} /\ removing \subseteq Names
      /\ page \in [role: Roles, rows: [Names -> NodeRow]] /\ claims \in Roles
  BY DEF Inv, TypeOK, Dialogs
<1>1. ASSUME NEW i \in Spots, OpenDialog(i) \/ CloseDialog(i)
      PROVE  Inv'
  <2>1. /\ dialog' \in {[dialog EXCEPT ![i].open = TRUE], [dialog EXCEPT ![i] = Closed]}
        /\ UNCHANGED <<node, token, claims, page, confirming, removing, calls, others>>
    BY <1>1 DEF OpenDialog, CloseDialog
  <2>2. [dialog EXCEPT ![i].open = TRUE] \in [Spots -> Dialogs]
    BY <1>0 DEF Dialogs
  <2>3. [dialog EXCEPT ![i] = Closed] \in [Spots -> Dialogs]
    BY <1>0, ClosedTyped
  <2> QED BY <2>1, <2>2, <2>3 DEF Inv, TypeOK, OneRemovalAtATime, Dialogs
<1>2. ASSUME NEW i \in Spots, NEW n \in Names, NEW valid \in BOOLEAN, Submit(i, n, valid)
      PROVE  Inv'
  <2> PICK h : h = Call("mint", n, i, valid)
    OBVIOUS
  <2>1. h.op = "mint" /\ h.from # "row" /\ h \in Calls
    BY DEF Call, Calls, Spots
  <2>2. Send(h) /\ UNCHANGED <<node, token, claims, page, dialog, confirming, removing, others>>
    BY <1>2 DEF Submit
  <2>3. Sound(h)
    BY <2>1 DEF Sound
  <2>4. /\ calls' \in Seq(Calls) /\ Len(calls') + others' <= MaxPending
        /\ OneRemovalAtATime' /\ \A k \in 1 .. Len(calls') : Sound(calls'[k])
    BY <2>1, <2>2, <2>3, SendSound
  <2> QED BY <2>2, <2>4 DEF Inv, TypeOK
<1>3. ASSUME NEW n \in Names, Choose(n)
      PROVE  Inv'
  BY <1>3 DEF Choose, Offered, Inv, TypeOK, OneRemovalAtATime
<1>4. ASSUME NEW n \in Names, Confirm(n)
      PROVE  Inv'
  <2> PICK h : h = Call("remove", n, "row", TRUE)
    OBVIOUS
  <2>1. h.op = "remove" /\ h.from = "row" /\ h.name = n /\ h \in Calls
    BY DEF Call, Calls
  <2>2. /\ confirming = n /\ Send(h) /\ confirming' = None
        /\ removing' = removing \cup {n} /\ UNCHANGED <<node, token, claims, page, dialog, others>>
    BY <1>4 DEF Confirm
  <2>3. Sound(h)
    BY <2>1 DEF Sound
  <2>4. n \notin removing
    BY <2>2, NodesPageAssumption DEF Inv
  <2>5. /\ calls' \in Seq(Calls) /\ Len(calls') + others' <= MaxPending
        /\ OneRemovalAtATime' /\ \A k \in 1 .. Len(calls') : Sound(calls'[k])
    BY <2>1, <2>2, <2>3, <2>4, SendSound
  <2> QED BY <2>2, <2>5 DEF Inv, TypeOK
<1>5. CASE Dismiss
  BY <1>5 DEF Dismiss, Inv, TypeOK, OneRemovalAtATime
<1>6. CASE Reload
  <2>1. /\ page' = Rendered(node) /\ dialog' = [i \in Spots |-> Closed] /\ confirming' = None
        /\ removing' = {} /\ UNCHANGED <<node, token, claims, others>>
    BY <1>6 DEF Reload
  <2>2. calls' = Kept(calls, {})
    BY <1>6 DEF Reload
  <2>3. page' \in [role: Roles, rows: [Names -> NodeRow]] /\ dialog' \in [Spots -> Dialogs]
    BY <1>0, <2>1, RenderedTyped, ClosedTyped
  <2>4. calls' \in Seq(Calls) /\ Len(calls') = Len(calls)
    BY <1>0, <2>2, KeptCalls
  <2>5. ASSUME NEW k \in 1 .. Len(calls)
        PROVE  /\ calls'[k].op = calls[k].op /\ calls'[k].name = calls[k].name
               /\ calls'[k].from = "gone"
    BY <1>0, <2>2, KeptCalls
  <2>6. OneRemovalAtATime'
    BY <2>1, <2>4, <2>5 DEF OneRemovalAtATime
  <2>7. \A k \in 1 .. Len(calls') : Sound(calls'[k])
    BY <2>1, <2>4, <2>5 DEF Inv, Sound
  <2> QED BY <2>1, <2>3, <2>4, <2>6, <2>7 DEF Inv, TypeOK, Dialogs
<1> QED BY <1>1, <1>2, <1>3, <1>4, <1>5, <1>6 DEF Browse

\* What happens behind the page.
LEMMA OthersSound ==
  ASSUME Inv, Others
  PROVE  Inv' /\ others' # others
<1>0. /\ node \in [Names -> NodeRow] /\ calls \in Seq(Calls) /\ others \in Nat
  BY DEF Inv, TypeOK
<1>1. ASSUME NEW n \in Names, NEW row \in NodeRow, Behind(n, row)
      PROVE  Inv' /\ others' # others
  <2>1. /\ Len(calls) + others < MaxPending /\ others' = others + 1
        /\ node' = [node EXCEPT ![n] = row]
        /\ UNCHANGED <<token, claims, page, dialog, confirming, removing, calls>>
    BY <1>1 DEF Behind, Noticed
  <2>2. /\ node' \in [Names -> NodeRow] /\ others' \in Nat /\ Len(calls') + others' <= MaxPending
        /\ others' # others
    BY <1>0, <2>1, LenProperties, NodesPageAssumption
  <2> QED BY <2>1, <2>2 DEF Inv, TypeOK, OneRemovalAtATime
<1>2. ASSUME NEW n \in Names, Register(n) \/ Issue(n) \/ OtherRemoves(n)
      PROVE  Inv' /\ others' # others
  <2>1. PICK row : Behind(n, row) /\ row \in {[status |-> "active", live |-> FALSE],
                     [node[n] EXCEPT !.live = ~@], [node[n] EXCEPT !.status = "disabled"]}
    BY <1>2 DEF Register, Issue, OtherRemoves
  <2>2. node[n] \in NodeRow
    BY <1>0
  <2>3. /\ [status |-> "active", live |-> FALSE] \in NodeRow
        /\ [node[n] EXCEPT !.status = "disabled"] \in NodeRow
    BY <2>2 DEF NodeRow
  <2>4. [node[n] EXCEPT !.live = ~@] \in NodeRow
    <3>1. (~node[n].live) \in BOOLEAN
      OBVIOUS
    <3> QED BY <2>2, <3>1 DEF NodeRow
  <2> QED BY <1>1, <2>1, <2>3, <2>4
<1>3. ASSUME NEW role \in Roles, Demote(role)
      PROVE  Inv' /\ others' # others
  <2>1. /\ claims' = role /\ others' = others + 1 /\ Len(calls) + others < MaxPending
        /\ UNCHANGED <<node, token, page, dialog, confirming, removing, calls>>
    BY <1>3 DEF Demote, Noticed
  <2>2. others' \in Nat /\ others' # others /\ Len(calls') + others' <= MaxPending
    BY <1>0, <2>1, LenProperties, NodesPageAssumption
  <2> QED BY <2>1, <2>2 DEF Inv, TypeOK, OneRemovalAtATime
<1> QED BY <1>2, <1>3 DEF Others

-----------------------------------------------------------------------------
(* The theorems *)

LEMMA Invariance == Spec => []Inv
<1>1. Inv /\ [Next]_vars => Inv'
  <2>1. ASSUME Inv, UNCHANGED vars
        PROVE  Inv'
    <3>1. UNCHANGED <<node, token, claims, page, dialog, confirming, removing, calls, others>>
      BY <2>1 DEF vars
    <3>2. TypeOK'
      BY <2>1, <3>1 DEF Inv, TypeOK
    <3>3. OneRemovalAtATime'
      BY <2>1, <3>1 DEF Inv, OneRemovalAtATime
    <3> QED BY <2>1, <3>1, <3>2, <3>3 DEF Inv
  <2> QED BY <2>1, BrowseSound, ServeSound, OthersSound DEF Next
<1> QED BY InitSound, <1>1, PTL DEF Spec

\* Every variable keeps its shape, and no more calls wait than the bound allows
\* (enroll-node-dialog.tsx, row-actions.tsx, nodes.ts).
THEOREM TypeCorrect == Spec => []TypeOK
  BY Invariance, PTL DEF Inv

\* A page has one removal of a node under way at most, and the item of its menu is
\* disabled for exactly that long (row-actions.tsx, pending).
THEOREM OneRemoval == Spec => []OneRemovalAtATime
  BY Invariance, PTL DEF Inv

=============================================================================
