------------------------------ MODULE AuditProofs ------------------------------
(***************************************************************************)
(* The hash chain of the audit log and the one-use view tickets, for any   *)
(* number of writers, tickets and entries.                                 *)
(***************************************************************************)
EXTENDS AuditChain, FiniteSetTheorems, TLAPS

Request == [doing : {"nothing", "other", "ticket_issued", "redeemed", "viewed"}, ticket : Tickets \cup {NoTicket},
            entries : SUBSET AuditEntry]

-------------------------------------------------------------------------------
(* The inductive invariant                                                 *)

\* Rows in which each carries the hash of the one before, and one of which is the last.
Chained(rows) == \A r \in rows : r.prev = last_of({q \in rows : q.id < r.id})
HasLast(rows) == rows = {} \/ \E r \in rows : \A q \in rows : q.id <= r.id
Chain(rows, id) == /\ rows \subseteq AuditEntry /\ IsFiniteSet(rows) /\ Chained(rows) /\ HasLast(rows)
                   /\ \A r \in rows : r.id <= id

\* The committed rows are a chain, and with the rows of whoever holds the lock, which come after
\* them, still are: it commits or rolls back before anyone else reads the last row.
Appending == /\ Chain(alog, lastId)
             /\ \A w \in Writers : /\ Chain(alog \cup wtx[w].entries, lastId)
                                   /\ wtx[w].entries # {} => chain = w
                                   /\ \A a \in alog, e \in wtx[w].entries : a.id < e.id

\* A request that has looked at nothing yet has written nothing; one that shows a document has
\* written only that.
Writing == \A w \in Writers : /\ wtx[w].doing \in {"nothing", "redeemed"} => wtx[w].entries = {}
                              /\ wtx[w].doing = "viewed" => \A e \in wtx[w].entries : e.action = "viewed"

\* A ticket is the business of one request at a time, from the one that issues it to the one that
\* uses it, and is shown only after it was used.
About(w) == wtx[w].doing \in {"ticket_issued", "redeemed", "viewed"}
Using(w) == wtx[w].doing \in {"redeemed", "viewed"}
OneUse == /\ \A w \in Writers : About(w) => wtx[w].ticket \in Tickets
          /\ \A w \in Writers : wtx[w].doing = "ticket_issued" => tickets[wtx[w].ticket] = "none"
          /\ \A w \in Writers : Using(w) => tickets[wtx[w].ticket] = "used" /\ shown[wtx[w].ticket] = 0
          /\ \A v, w \in Writers : About(v) /\ About(w) /\ wtx[v].ticket = wtx[w].ticket => v = w
          /\ \A t \in Tickets : shown[t] <= 1 /\ (shown[t] > 0 => tickets[t] = "used")

\* There is an entry for every ticket shown.
Views == {r \in alog : r.action = "viewed"}
Shown == {t \in Tickets : shown[t] > 0}
Recorded == IsFiniteSet(Shown) /\ Cardinality(Views) >= Cardinality(Shown)

AuditInv == /\ lastId \in 0..MaxEntries /\ chain \in Writers \cup {NoWriter} /\ wtx \in [Writers -> Request]
            /\ tickets \in [Tickets -> FileViewTicket] /\ may_read \in BOOLEAN /\ shown \in [Tickets -> Nat]
            /\ Appending /\ Writing /\ OneUse /\ Recorded

LEMMA AuditTypeHolds == AuditInv => AuditTypeOK
  BY DEF AuditInv, AuditTypeOK, Appending, Chain, Request

LEMMA ChainHolds == AuditInv => ChainHoldsEveryView
<1> SUFFICES ASSUME AuditInv PROVE ChainHoldsEveryView
  OBVIOUS
<1>1. verify_chain = {}
  BY DEF AuditInv, Appending, Chain, Chained, verify_chain
<1>2. \A t \in Tickets : shown[t] <= 1
  BY DEF AuditInv, OneUse
<1>3. QED
  BY <1>1, <1>2 DEF ChainHoldsEveryView, AuditInv, Recorded, Views, Shown

LEMMA EmptyChain == Chain({}, lastId)
  BY FS_EmptySet DEF Chain, Chained, HasLast

LEMMA AuditInitInv == AuditInit => AuditInv
<1> SUFFICES ASSUME AuditInit PROVE AuditInv
  OBVIOUS
<1>1. alog = {} /\ lastId = 0 /\ chain = NoWriter /\ may_read = TRUE /\ wtx = [w \in Writers |-> NoRequest]
      /\ tickets = [t \in Tickets |-> "none"] /\ shown = [t \in Tickets |-> 0]
  BY DEF AuditInit
<1>2. NoRequest \in Request /\ NoRequest.doing = "nothing" /\ NoRequest.entries = {}
  BY DEF NoRequest, Request
<1>3. wtx \in [Writers -> Request] /\ \A w \in Writers : wtx[w].doing = "nothing" /\ wtx[w].entries = {}
  BY <1>1, <1>2
<1>4. Appending
  BY <1>1, <1>3, EmptyChain DEF Appending
<1>5. Recorded
  <2>1. Views = {} /\ Shown = {}
    BY <1>1 DEF Views, Shown
  <2>2. QED
    BY <2>1, FS_EmptySet DEF Recorded
<1>6. Writing /\ OneUse
  BY <1>1, <1>3 DEF Writing, OneUse, About, Using
<1>7. tickets \in [Tickets -> FileViewTicket] /\ shown \in [Tickets -> Nat]
  BY <1>1 DEF FileViewTicket
<1>8. QED
  BY <1>1, <1>3, <1>4, <1>5, <1>6, <1>7, AuditAssumption DEF AuditInv

-------------------------------------------------------------------------------
(* The chain                                                               *)

\* The last of rows that have one is the id of one of them.
LEMMA LastType ==
  ASSUME NEW rows, rows \subseteq AuditEntry, HasLast(rows)
  PROVE  last_of(rows) \in 0..MaxEntries
<1>1. CASE rows = {}
  BY <1>1, AuditAssumption DEF last_of
<1>2. CASE rows # {}
  <2>1. \E i \in {r.id : r \in rows} : \A r \in rows : r.id <= i
    BY <1>2 DEF HasLast
  <2>2. last_of(rows) \in {r.id : r \in rows}
    BY <1>2, <2>1 DEF last_of
  <2>3. \A r \in rows : r.id \in 0..MaxEntries
    BY AuditAssumption DEF AuditEntry
  <2>4. QED
    BY <2>2, <2>3
<1>3. QED
  BY <1>1, <1>2

\* An entry after all the others makes a chain of a chain.
LEMMA NextEntry ==
  ASSUME lastId \in 0..MaxEntries, lastId < MaxEntries, NEW rows, Chain(rows, lastId),
         NEW action \in {"other", "ticket_issued", "viewed", "denied"},
         NEW e, e = next_entry(rows, action)
  PROVE  /\ Chain(rows \cup {e}, lastId + 1) /\ e \in AuditEntry /\ e.action = action /\ e.id = lastId + 1
         /\ \A r \in rows : r.id < e.id
<1>1. last_of(rows) \in 0..MaxEntries
  BY LastType DEF Chain
<1>2. lastId \in Nat /\ lastId + 1 \in 1..MaxEntries
  BY AuditAssumption
<1>3. e.id = lastId + 1 /\ e.prev = last_of(rows) /\ e.action = action /\ e \in AuditEntry
  BY <1>1, <1>2 DEF next_entry, AuditEntry
<1>4. \A r \in rows : r.id \in Nat /\ r.id <= lastId
  BY AuditAssumption DEF Chain, AuditEntry
<1>5. \A r \in rows : r.id < e.id
  BY <1>2, <1>3, <1>4
<1> DEFINE more == rows \cup {e}
<1>6. more \subseteq AuditEntry /\ IsFiniteSet(more)
  BY <1>3, FS_AddElement DEF Chain
<1>7. HasLast(more)
  <2>1. \A q \in more : q.id <= e.id
    BY <1>2, <1>3, <1>5, <1>4
  <2>2. QED
    BY <2>1 DEF HasLast
<1>8. Chained(more)
  <2>1. {q \in more : q.id < e.id} = rows
    BY <1>2, <1>3, <1>5
  <2>2. ASSUME NEW r \in rows PROVE {q \in more : q.id < r.id} = {q \in rows : q.id < r.id}
    BY <1>2, <1>3, <1>4
  <2>3. ASSUME NEW r \in rows PROVE r.prev = last_of({q \in more : q.id < r.id})
    BY <2>2 DEF Chain, Chained
  <2>4. e.prev = last_of({q \in more : q.id < e.id})
    BY <1>3, <2>1
  <2>5. QED
    BY <2>3, <2>4 DEF Chained
<1>9. \A r \in more : r.id <= lastId + 1
  BY <1>2, <1>3, <1>4
<1>10. QED
  BY <1>3, <1>5, <1>6, <1>7, <1>8, <1>9 DEF Chain

\* The ids drawn later leave a chain a chain.
LEMMA LaterId ==
  ASSUME NEW rows, NEW m \in Nat, NEW n \in Nat, m <= n, Chain(rows, m)
  PROVE  Chain(rows, n)
<1>1. \A r \in rows : r.id \in Nat
  BY AuditAssumption DEF Chain, AuditEntry
<1>2. QED
  BY <1>1 DEF Chain

-------------------------------------------------------------------------------
(* The steps                                                               *)

\* What a step does to the requests other than its own: nothing.
Others(w) == \A v \in Writers \ {w} : wtx'[v] = wtx[v]

LEMMA WriteKeeps ==
  ASSUME AuditInv, NEW w \in Writers, write_audit(w)
  PROVE  AuditInv'
<1> DEFINE old == wtx[w].entries
           rows == alog \cup old
           act == wtx[w].doing
           e == next_entry(rows, act)
<1>0. /\ lastId \in 0..MaxEntries /\ wtx \in [Writers -> Request] /\ wtx[w] \in Request /\ lastId \in Nat
      /\ Appending /\ Writing /\ OneUse /\ Recorded
  BY AuditAssumption DEF AuditInv
<1>1. /\ act \in {"other", "ticket_issued", "viewed"} /\ lastId < MaxEntries
      /\ chain \in {NoWriter, w} /\ chain' = w /\ lastId' = lastId + 1
      /\ wtx' = [wtx EXCEPT ![w] = [wtx[w] EXCEPT !.entries = old \cup {e}]]
      /\ UNCHANGED <<alog, tickets, may_read, shown>>
  BY <1>0 DEF write_audit
<1>2. Chain(rows, lastId) /\ Chain(alog, lastId)
  BY <1>0 DEF Appending
<1> HIDE DEF e, rows
<1>3. /\ Chain(rows \cup {e}, lastId + 1) /\ e \in AuditEntry /\ e.action = act
      /\ \A r \in rows : r.id < e.id
  BY <1>0, <1>1, <1>2, NextEntry DEF e
<1>4. old \subseteq AuditEntry /\ old \cup {e} \in SUBSET AuditEntry
  BY <1>0, <1>3 DEF Request
<1> DEFINE new == [wtx[w] EXCEPT !.entries = old \cup {e}]
           ent == old \cup {e}
<1>5. new \in Request /\ new.entries = ent /\ new.doing = act /\ new.ticket = wtx[w].ticket
  BY <1>0, <1>4 DEF Request
<1> HIDE DEF new
<1>6. wtx' \in [Writers -> Request] /\ wtx'[w] = new /\ Others(w)
  BY <1>0, <1>1, <1>5 DEF Others, new
<1>7. \A v \in Writers \ {w} : wtx[v].entries = {}
  BY <1>0, <1>1, AuditAssumption DEF Appending
<1>8. Appending'
  <2>1. Chain(alog, lastId + 1)
    BY <1>0, <1>2, LaterId
  <2>2. alog \cup ent = rows \cup {e}
    BY DEF rows
  <2>3. \A a \in alog, x \in ent : a.id < x.id
    BY <1>0, <1>3 DEF Appending, rows
  <2>4. ASSUME NEW v \in Writers
        PROVE  /\ Chain(alog' \cup wtx'[v].entries, lastId')
               /\ wtx'[v].entries # {} => chain' = v
               /\ \A a \in alog', x \in wtx'[v].entries : a.id < x.id
    <3>1. CASE v = w
      BY <1>1, <1>3, <1>5, <1>6, <2>2, <2>3, <3>1
    <3>2. CASE v # w
      <4>1. wtx'[v].entries = {} /\ alog \cup wtx'[v].entries = alog
        BY <1>6, <1>7, <3>2 DEF Others
      <4>2. QED
        BY <1>1, <2>1, <4>1
    <3>3. QED
      BY <3>1, <3>2
  <2>5. QED
    BY <1>1, <2>1, <2>4 DEF Appending
<1>9. Writing'
  BY <1>0, <1>1, <1>3, <1>5, <1>6 DEF Writing, Others
<1>10. OneUse'
  BY <1>0, <1>1, <1>5, <1>6 DEF OneUse, About, Using, Others
<1>11. Recorded'
  BY <1>0, <1>1 DEF Recorded, Views, Shown
<1>12. lastId' \in 0..MaxEntries
  BY <1>0, <1>1, AuditAssumption
<1>13. QED
  BY <1>1, <1>6, <1>8, <1>9, <1>10, <1>11, <1>12 DEF AuditInv

\* The end of a request, whatever it leaves in the log: it is about nothing and holds no lock.
LEMMA EndOfRequest ==
  ASSUME AuditInv, NEW w \in Writers, ends(w)
  PROVE  /\ wtx' \in [Writers -> Request] /\ Others(w) /\ chain' \in Writers \cup {NoWriter}
         /\ wtx'[w].doing = "nothing" /\ wtx'[w].entries = {} /\ chain' # w
         /\ chain # w => chain' = chain
<1>1. NoRequest \in Request /\ NoRequest.doing = "nothing" /\ NoRequest.entries = {}
  BY DEF NoRequest, Request
<1>2. wtx' = [wtx EXCEPT ![w] = NoRequest] /\ chain' = IF chain = w THEN NoWriter ELSE chain
  BY DEF ends
<1>3. QED
  BY <1>1, <1>2, AuditAssumption DEF AuditInv, Others

\* A request that ends with the log a chain, and with nobody else's entries beside it.
LEMMA EndKeeps ==
  ASSUME AuditInv, NEW w \in Writers, ends(w), Chain(alog', lastId'), lastId' \in Nat, lastId <= lastId',
         alog' = alog \/ (\A v \in Writers \ {w} : wtx[v].entries = {})
  PROVE  Appending' /\ Writing'
<1>0. Appending /\ Writing /\ lastId \in Nat
  BY AuditAssumption DEF AuditInv
<1>1. wtx'[w].entries = {} /\ wtx'[w].doing = "nothing" /\ Others(w) /\ (chain # w => chain' = chain)
  BY EndOfRequest
<1>2. ASSUME NEW v \in Writers
      PROVE  /\ Chain(alog' \cup wtx'[v].entries, lastId')
             /\ wtx'[v].entries # {} => chain' = v
             /\ \A a \in alog', e \in wtx'[v].entries : a.id < e.id
  <2>1. CASE wtx'[v].entries = {}
    <3>1. alog' \cup wtx'[v].entries = alog'
      BY <2>1
    <3>2. QED
      BY <2>1, <3>1
  <2>2. CASE wtx'[v].entries # {}
    <3>1. v # w /\ wtx'[v] = wtx[v] /\ wtx[v].entries # {} /\ alog' = alog
      BY <1>1, <2>2 DEF Others
    <3>2. chain = v /\ chain' = v
      BY <1>0, <1>1, <3>1 DEF Appending
    <3>3. Chain(alog \cup wtx[v].entries, lastId')
      BY <1>0, LaterId DEF Appending
    <3>4. QED
      BY <1>0, <3>1, <3>2, <3>3 DEF Appending
  <2>3. QED
    BY <2>1, <2>2
<1>3. Appending'
  BY <1>2 DEF Appending
<1>4. Writing'
  BY <1>0, <1>1 DEF Writing, Others
<1>5. QED
  BY <1>3, <1>4

LEMMA RollbackKeeps ==
  ASSUME AuditInv, NEW w \in Writers, rolls_back(w) \/ write_audit_detached(w)
  PROVE  AuditInv'
<1>0. /\ lastId \in 0..MaxEntries /\ lastId \in Nat /\ Appending /\ OneUse /\ Recorded /\ Chain(alog, lastId)
  <2>1. lastId \in 0..MaxEntries /\ Appending /\ OneUse /\ Recorded
    BY DEF AuditInv
  <2>2. QED
    BY <2>1, AuditAssumption DEF Appending
<1>1. ends(w) /\ UNCHANGED <<tickets, may_read, shown>>
  BY DEF rolls_back, write_audit_detached
<1> DEFINE e == next_entry(alog, "denied")
<1>2. \/ alog' = alog /\ lastId' = lastId
      \/ chain = NoWriter /\ lastId < MaxEntries /\ alog' = alog \cup {e} /\ lastId' = lastId + 1
  BY DEF rolls_back, write_audit_detached
<1> HIDE DEF e
<1>3. Chain(alog \cup {e}, lastId + 1) \/ ~(lastId < MaxEntries)
  BY <1>0, NextEntry DEF e
<1>4. Chain(alog', lastId') /\ lastId' \in 0..MaxEntries /\ lastId' \in Nat /\ lastId <= lastId' /\ alog \subseteq alog'
  BY <1>0, <1>2, <1>3, AuditAssumption
<1>5. alog' = alog \/ (\A v \in Writers \ {w} : wtx[v].entries = {})
  BY <1>0, <1>2, AuditAssumption DEF Appending
<1>6. Appending' /\ Writing'
  BY <1>1, <1>4, <1>5, EndKeeps
<1>7. wtx'[w].doing = "nothing" /\ Others(w)
  BY <1>1, EndOfRequest
<1>8. OneUse'
  BY <1>0, <1>1, <1>7 DEF OneUse, About, Using, Others
<1>9. Recorded'
  <2>1. IsFiniteSet(Shown) /\ Shown' = Shown /\ Cardinality(Views) >= Cardinality(Shown)
    BY <1>0, <1>1 DEF Recorded, Shown
  <2>2. Views \subseteq Views' /\ Views' \subseteq alog'
    BY <1>4 DEF Views
  <2>3. IsFiniteSet(Views') /\ IsFiniteSet(Views)
    BY <1>4, <2>2, FS_Subset DEF Chain
  <2>4. Cardinality(Views) <= Cardinality(Views')
    BY <2>2, <2>3, FS_Subset
  <2>5. Cardinality(Views) \in Nat /\ Cardinality(Views') \in Nat /\ Cardinality(Shown) \in Nat
    BY <2>1, <2>3, FS_CardinalityType
  <2>6. QED
    BY <2>1, <2>4, <2>5 DEF Recorded
<1>10. QED
  BY <1>1, <1>4, <1>6, <1>8, <1>9, EndOfRequest DEF AuditInv

\* One element more.
LEMMA OneMore ==
  ASSUME NEW V, NEW W, NEW x, IsFiniteSet(W), V \subseteq W, x \in W, x \notin V
  PROVE  IsFiniteSet(V) /\ Cardinality(V) \in Nat /\ Cardinality(W) \in Nat /\ Cardinality(V) + 1 <= Cardinality(W)
<1>1. IsFiniteSet(V) /\ Cardinality(V) \in Nat
  BY FS_Subset, FS_CardinalityType
<1>2. V \cup {x} \subseteq W /\ Cardinality(V \cup {x}) = Cardinality(V) + 1
  BY <1>1, FS_AddElement
<1>3. QED
  BY <1>1, <1>2, FS_Subset, FS_CardinalityType

LEMMA CommitKeeps ==
  ASSUME AuditInv, NEW w \in Writers, commits(w)
  PROVE  AuditInv'
<1> DEFINE own == wtx[w].entries
           t == wtx[w].ticket
<1>0. /\ lastId \in 0..MaxEntries /\ Appending /\ Writing /\ OneUse /\ Recorded
      /\ tickets \in [Tickets -> FileViewTicket] /\ shown \in [Tickets -> Nat]
  BY DEF AuditInv
<1>1. /\ own # {} /\ alog' = alog \cup own
      /\ tickets' = IF wtx[w].doing = "ticket_issued" THEN [tickets EXCEPT ![t] = "issued"] ELSE tickets
      /\ shown' = IF wtx[w].doing = "viewed" THEN [shown EXCEPT ![t] = @ + 1] ELSE shown
      /\ ends(w) /\ UNCHANGED <<lastId, may_read>>
  BY DEF commits
<1>2. Chain(alog', lastId') /\ lastId' \in Nat /\ lastId <= lastId'
  BY <1>0, <1>1, AuditAssumption DEF Appending
<1>3. \A v \in Writers \ {w} : wtx[v].entries = {}
  BY <1>0, <1>1 DEF Appending
<1>4. Appending' /\ Writing'
  BY <1>1, <1>2, <1>3, EndKeeps
<1>5. wtx'[w].doing = "nothing" /\ Others(w)
  BY <1>1, EndOfRequest
<1>6. tickets' \in [Tickets -> FileViewTicket] /\ shown' \in [Tickets -> Nat]
  <2>1. About(w) => t \in Tickets
    BY <1>0 DEF OneUse
  <2>2. tickets' \in [Tickets -> FileViewTicket]
    BY <1>0, <1>1 DEF FileViewTicket
  <2>3. shown' \in [Tickets -> Nat]
    <3>1. CASE wtx[w].doing = "viewed"
      <4>1. shown' = [shown EXCEPT ![t] = shown[t] + 1] /\ t \in Tickets
        BY <1>1, <2>1, <3>1 DEF About
      <4>2. shown[t] + 1 \in Nat
        BY <1>0, <4>1
      <4>3. QED
        BY <1>0, <4>1, <4>2
    <3>2. QED
      BY <1>0, <1>1, <3>1
  <2>4. QED
    BY <2>2, <2>3
<1>7. CASE wtx[w].doing = "viewed"
  <2>1. t \in Tickets /\ tickets[t] = "used" /\ shown[t] = 0 /\ tickets' = tickets
    BY <1>0, <1>1, <1>7 DEF OneUse, About, Using
  <2>2. shown'[t] = 1 /\ \A u \in Tickets \ {t} : shown'[u] = shown[u]
    BY <1>0, <1>1, <1>7, <2>1
  <2>3. \A v \in Writers \ {w} : About(v) => wtx[v].ticket # t
    BY <1>0, <1>7 DEF OneUse, About
  <2>4. \A v \in Writers : About(v)' => v # w /\ About(v) /\ wtx'[v] = wtx[v]
    BY <1>5 DEF About, Others
  <2>5. OneUse'
    <3>1. \A v \in Writers : About(v)' => wtx'[v].ticket \in Tickets /\ wtx'[v].ticket # t
      BY <1>0, <2>3, <2>4 DEF OneUse
    <3>2. \A v \in Writers : wtx'[v].doing = "ticket_issued" => tickets'[wtx'[v].ticket] = "none"
      BY <1>0, <1>5, <2>1 DEF OneUse, Others
    <3>3. \A v \in Writers : Using(v)' => tickets'[wtx'[v].ticket] = "used" /\ shown'[wtx'[v].ticket] = 0
      <4>1. ASSUME NEW v \in Writers, Using(v)' PROVE tickets'[wtx'[v].ticket] = "used" /\ shown'[wtx'[v].ticket] = 0
        <5>1. v # w /\ wtx'[v] = wtx[v] /\ Using(v) /\ About(v)
          BY <1>5, <4>1 DEF Using, About, Others
        <5>2. wtx[v].ticket \in Tickets \ {t} /\ tickets[wtx[v].ticket] = "used" /\ shown[wtx[v].ticket] = 0
          BY <1>0, <2>3, <5>1 DEF OneUse
        <5>3. QED
          BY <2>1, <2>2, <5>1, <5>2
      <4>2. QED
        BY <4>1
    <3>4. \A u, v \in Writers : About(u)' /\ About(v)' /\ wtx'[u].ticket = wtx'[v].ticket => u = v
      BY <1>0, <2>4 DEF OneUse
    <3>5. \A u \in Tickets : shown'[u] <= 1 /\ (shown'[u] > 0 => tickets'[u] = "used")
      BY <1>0, <2>1, <2>2 DEF OneUse
    <3>6. QED
      BY <3>1, <3>2, <3>3, <3>4, <3>5 DEF OneUse
  <2>6. Recorded'
    <3>1. PICK e \in own : e.action = "viewed"
      BY <1>0, <1>1, <1>7 DEF Writing
    <3>2. e \notin alog
      <4>1. \A a \in alog : a.id < e.id
        BY <1>0 DEF Appending
      <4>2. e.id \in Nat
        BY AuditAssumption DEF AuditInv, Request, AuditEntry
      <4>3. QED
        BY <4>1, <4>2
    <3>3. IsFiniteSet(alog') /\ Views' \subseteq alog' /\ Views \subseteq Views' /\ e \in Views' /\ e \notin Views
      BY <1>1, <1>2, <3>1, <3>2 DEF Views, Chain
    <3>4. Cardinality(Views) \in Nat /\ Cardinality(Views') \in Nat /\ Cardinality(Views) + 1 <= Cardinality(Views')
      BY <3>3, FS_Subset, OneMore
    <3>5. Shown' = Shown \cup {t} /\ t \notin Shown
      BY <1>0, <2>1, <2>2 DEF Shown
    <3>6. IsFiniteSet(Shown') /\ Cardinality(Shown') = Cardinality(Shown) + 1 /\ Cardinality(Shown) \in Nat
      BY <1>0, <3>5, FS_AddElement, FS_CardinalityType DEF Recorded
    <3>7. QED
      BY <1>0, <3>4, <3>6 DEF Recorded
  <2>7. QED
    BY <1>0, <1>1, <1>4, <1>6, <2>5, <2>6, EndOfRequest DEF AuditInv
<1>8. CASE wtx[w].doing # "viewed"
  <2>1. shown' = shown
    BY <1>1, <1>8
  <2>2. \A v \in Writers : About(v)' => v # w /\ About(v) /\ wtx'[v] = wtx[v]
    BY <1>5 DEF About, Others
  <2>3. \A v \in Writers \ {w} : About(v) => tickets'[wtx[v].ticket] = tickets[wtx[v].ticket]
    <3>1. CASE wtx[w].doing = "ticket_issued"
      <4>1. \A v \in Writers \ {w} : About(v) => wtx[v].ticket \in Tickets /\ wtx[v].ticket # t
        BY <1>0, <3>1 DEF OneUse, About
      <4>2. QED
        BY <1>0, <1>1, <3>1, <4>1
    <3>2. CASE wtx[w].doing # "ticket_issued"
      BY <1>1, <3>2
    <3>3. QED
      BY <3>1, <3>2
  <2>4. \A u \in Tickets : shown[u] > 0 => tickets'[u] = "used"
    <3>1. CASE wtx[w].doing = "ticket_issued"
      <4>1. t \in Tickets /\ tickets[t] = "none"
        BY <1>0, <3>1 DEF OneUse, About
      <4>2. QED
        BY <1>0, <1>1, <3>1, <4>1 DEF OneUse
    <3>2. CASE wtx[w].doing # "ticket_issued"
      BY <1>0, <1>1, <3>2 DEF OneUse
    <3>3. QED
      BY <3>1, <3>2
  <2>5. OneUse'
    <3>1. \A v \in Writers : About(v)' => wtx'[v].ticket \in Tickets
      BY <1>0, <2>2 DEF OneUse
    <3>2. \A v \in Writers : wtx'[v].doing = "ticket_issued" => tickets'[wtx'[v].ticket] = "none"
      BY <1>0, <2>2, <2>3 DEF OneUse, About
    <3>3. \A v \in Writers : Using(v)' => tickets'[wtx'[v].ticket] = "used" /\ shown'[wtx'[v].ticket] = 0
      BY <1>0, <2>1, <2>2, <2>3 DEF OneUse, About, Using
    <3>4. \A u, v \in Writers : About(u)' /\ About(v)' /\ wtx'[u].ticket = wtx'[v].ticket => u = v
      BY <1>0, <2>2 DEF OneUse
    <3>5. QED
      BY <1>0, <2>1, <2>4, <3>1, <3>2, <3>3, <3>4 DEF OneUse
  <2>6. Recorded'
    <3>1. IsFiniteSet(Shown) /\ Shown' = Shown /\ Cardinality(Views) >= Cardinality(Shown)
      BY <1>0, <2>1 DEF Recorded, Shown
    <3>2. Views \subseteq Views' /\ Views' \subseteq alog'
      BY <1>1 DEF Views
    <3>3. IsFiniteSet(Views') /\ IsFiniteSet(Views)
      BY <1>2, <3>2, FS_Subset DEF Chain
    <3>4. Cardinality(Views) <= Cardinality(Views')
      BY <3>2, <3>3, FS_Subset
    <3>5. Cardinality(Views) \in Nat /\ Cardinality(Views') \in Nat /\ Cardinality(Shown) \in Nat
      BY <3>1, <3>3, FS_CardinalityType
    <3>6. QED
      BY <3>1, <3>4, <3>5 DEF Recorded
  <2>7. QED
    BY <1>0, <1>1, <1>4, <1>6, <2>5, <2>6, EndOfRequest DEF AuditInv
<1>9. QED
  BY <1>7, <1>8

\* A step that only begins or advances a request, without an entry.
LEMMA RequestKeeps ==
  ASSUME AuditInv, NEW w \in Writers, NEW new \in Request, wtx' = [wtx EXCEPT ![w] = new], new.entries = wtx[w].entries,
         new.doing # "nothing", wtx[w].entries = {}, UNCHANGED <<alog, lastId, chain, may_read, shown>>,
         tickets' \in [Tickets -> FileViewTicket], OneUse'
  PROVE  AuditInv'
<1>0. wtx \in [Writers -> Request] /\ Appending /\ Writing /\ Recorded
  BY DEF AuditInv
<1>1. wtx' \in [Writers -> Request] /\ wtx'[w] = new /\ Others(w) /\ \A v \in Writers : wtx'[v].entries = wtx[v].entries
  BY <1>0 DEF Others
<1>2. Appending'
  BY <1>0, <1>1 DEF Appending
<1>3. Writing'
  BY <1>0, <1>1 DEF Writing, Others
<1>4. Recorded'
  BY <1>0 DEF Recorded, Views, Shown
<1>5. QED
  BY <1>1, <1>2, <1>3, <1>4 DEF AuditInv

LEMMA BeginKeeps ==
  ASSUME AuditInv, NEW w \in Writers, begin_other(w) \/ serve(w) \/ \E t \in Tickets : issue(w, t) \/ redeem(w, t)
  PROVE  AuditInv'
<1>0. /\ wtx \in [Writers -> Request] /\ wtx[w] \in Request /\ Writing /\ OneUse
      /\ tickets \in [Tickets -> FileViewTicket]
  BY DEF AuditInv
<1>1. CASE begin_other(w)
  <2> DEFINE new == [wtx[w] EXCEPT !.doing = "other"]
  <2>1. wtx' = [wtx EXCEPT ![w] = new] /\ wtx[w].doing = "nothing"
        /\ UNCHANGED <<alog, lastId, chain, tickets, may_read, shown>>
    BY <1>0, <1>1 DEF begin_other
  <2>2. new \in Request /\ new.doing = "other" /\ new.entries = wtx[w].entries
    BY <1>0 DEF Request
  <2> HIDE DEF new
  <2>3. wtx'[w] = new /\ Others(w) /\ wtx[w].entries = {}
    BY <1>0, <2>1 DEF Others, Writing
  <2>4. OneUse'
    BY <1>0, <2>1, <2>2, <2>3 DEF OneUse, About, Using, Others
  <2>5. QED
    BY <1>0, <2>1, <2>2, <2>3, <2>4, RequestKeeps
<1>2. CASE serve(w)
  <2> DEFINE new == [wtx[w] EXCEPT !.doing = "viewed"]
  <2>1. wtx' = [wtx EXCEPT ![w] = new] /\ wtx[w].doing = "redeemed"
        /\ UNCHANGED <<alog, lastId, chain, tickets, may_read, shown>>
    BY <1>0, <1>2 DEF serve
  <2>2. new \in Request /\ new.doing = "viewed" /\ new.entries = wtx[w].entries /\ new.ticket = wtx[w].ticket
    BY <1>0 DEF Request
  <2> HIDE DEF new
  <2>3. wtx'[w] = new /\ Others(w) /\ wtx[w].entries = {}
    BY <1>0, <2>1 DEF Others, Writing
  <2>4. OneUse'
    BY <1>0, <2>1, <2>2, <2>3 DEF OneUse, About, Using, Others
  <2>5. QED
    BY <1>0, <2>1, <2>2, <2>3, <2>4, RequestKeeps
<1>3. ASSUME NEW t \in Tickets, issue(w, t) PROVE AuditInv'
  <2> DEFINE new == [wtx[w] EXCEPT !.doing = "ticket_issued", !.ticket = t]
  <2>1. wtx' = [wtx EXCEPT ![w] = new] /\ wtx[w].doing = "nothing" /\ tickets[t] = "none"
        /\ (\A v \in Writers : wtx[v].ticket # t) /\ UNCHANGED <<alog, lastId, chain, tickets, may_read, shown>>
    BY <1>0, <1>3 DEF issue
  <2>2. new \in Request /\ new.doing = "ticket_issued" /\ new.entries = wtx[w].entries /\ new.ticket = t
    BY <1>0 DEF Request
  <2> HIDE DEF new
  <2>3. wtx'[w] = new /\ Others(w) /\ wtx[w].entries = {}
    BY <1>0, <2>1 DEF Others, Writing
  <2>4. OneUse'
    BY <1>0, <2>1, <2>2, <2>3 DEF OneUse, About, Using, Others
  <2>5. QED
    BY <1>0, <2>1, <2>2, <2>3, <2>4, RequestKeeps
<1>4. ASSUME NEW t \in Tickets, redeem(w, t) PROVE AuditInv'
  <2> DEFINE new == [wtx[w] EXCEPT !.doing = "redeemed", !.ticket = t]
  <2>1. wtx' = [wtx EXCEPT ![w] = new] /\ wtx[w].doing = "nothing" /\ tickets[t] = "issued"
        /\ tickets' = [tickets EXCEPT ![t] = "used"] /\ UNCHANGED <<alog, lastId, chain, may_read, shown>>
    BY <1>0, <1>4 DEF redeem
  <2>2. new \in Request /\ new.doing = "redeemed" /\ new.entries = wtx[w].entries /\ new.ticket = t
    BY <1>0 DEF Request
  <2> HIDE DEF new
  <2>3. wtx'[w] = new /\ Others(w) /\ wtx[w].entries = {}
    BY <1>0, <2>1 DEF Others, Writing
  <2>4. tickets' \in [Tickets -> FileViewTicket] /\ tickets'[t] = "used" /\ \A u \in Tickets \ {t} : tickets'[u] = tickets[u]
    BY <1>0, <2>1 DEF FileViewTicket
  <2>5. (\A v \in Writers : About(v) => wtx[v].ticket # t) /\ shown[t] = 0
    <3>1. shown[t] \in Nat
      BY DEF AuditInv
    <3>2. QED
      BY <1>0, <2>1, <3>1 DEF OneUse, About, Using
  <2>6. OneUse'
    BY <1>0, <2>1, <2>2, <2>3, <2>4, <2>5 DEF OneUse, About, Using, Others
  <2>7. QED
    BY <1>0, <2>1, <2>2, <2>3, <2>4, <2>6, RequestKeeps
<1>5. QED
  BY <1>1, <1>2, <1>3, <1>4

LEMMA AuditStep == AuditInv /\ [AuditNext]_auditVars => AuditInv'
<1> SUFFICES ASSUME AuditInv, [AuditNext]_auditVars PROVE AuditInv'
  OBVIOUS
<1>1. CASE UNCHANGED auditVars
  BY <1>1 DEF auditVars, AuditInv, Appending, Writing, OneUse, About, Using, Recorded, Views, Shown
<1>2. CASE access_changes
  BY <1>2 DEF access_changes, AuditInv, Appending, Writing, OneUse, About, Using, Recorded, Views, Shown
<1>3. ASSUME NEW t \in Tickets, ticket_expires(t) PROVE AuditInv'
  <2>1. tickets[t] = "issued" /\ tickets' = [tickets EXCEPT ![t] = "expired"]
        /\ UNCHANGED <<alog, lastId, chain, wtx, may_read, shown>>
    BY <1>3 DEF ticket_expires
  <2>2. /\ tickets' \in [Tickets -> FileViewTicket] /\ tickets'[t] = "expired"
        /\ \A u \in Tickets \ {t} : tickets'[u] = tickets[u]
    BY <2>1 DEF AuditInv, FileViewTicket
  <2>3. OneUse'
    BY <2>1, <2>2 DEF AuditInv, OneUse, About, Using
  <2>4. Appending' /\ Writing' /\ Recorded'
    BY <2>1 DEF AuditInv, Appending, Writing, Recorded, Views, Shown
  <2>5. QED
    BY <2>1, <2>2, <2>3, <2>4 DEF AuditInv
<1>4. QED
  BY <1>1, <1>2, <1>3, WriteKeeps, CommitKeeps, RollbackKeeps, BeginKeeps DEF AuditNext

\* Every entry, request and ticket has its type.
THEOREM AuditTyped == AuditSpec => []AuditTypeOK
<1>1. QED
  BY AuditInitInv, AuditStep, AuditTypeHolds, PTL DEF AuditSpec

\* write_audit, write_audit_detached, redeem and _serve: for any number of writers and tickets,
\* the committed log is an unbroken chain, no ticket shows a document twice, and there are at
\* least as many entries of a view as tickets that showed a document.
THEOREM ChainAlwaysHolds == AuditSpec => []ChainHoldsEveryView
<1>1. QED
  BY AuditInitInv, AuditStep, ChainHolds, PTL DEF AuditSpec
=============================================================================
