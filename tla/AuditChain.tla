------------------------------- MODULE AuditChain -------------------------------
(***************************************************************************)
(* The audit log as a hash chain, and the one-use tickets with which a     *)
(* reviewer sees a document: audited requests append to the chain inside   *)
(* their own transaction, under an advisory lock held to its end.          *)
(*                                                                         *)
(*   alog     the committed rows of audit_log                              *)
(*   lastId   the sequence behind their ids; a rollback leaves a gap       *)
(*   chain    who holds the advisory lock of the chain                     *)
(*   wtx      the request of each writer: what it does and its entries     *)
(*            that are not committed                                       *)
(*   tickets  rows of file_view_tickets                                    *)
(*   may_read can_read_case of the ticket's owner                          *)
(*   shown    how often the ticket showed the document                     *)
(***************************************************************************)
EXTENDS Naturals, FiniteSets

CONSTANTS
  Writers,     \* requests that write to the log
  NoWriter,    \* the lock is free
  Tickets,     \* view tickets
  NoTicket,    \* a request that is about none
  MaxEntries   \* bound: ids drawn from the sequence

ASSUME AuditAssumption == NoWriter \notin Writers /\ NoTicket \notin Tickets /\ MaxEntries \in Nat

VARIABLES alog, lastId, chain, wtx, tickets, may_read, shown
auditVars == <<alog, lastId, chain, wtx, tickets, may_read, shown>>

\* prev: the id of the row whose row_hash is this one's prev_hash (0: none), hashes being unique.
AuditEntry == [id : 1..MaxEntries, prev : 0..MaxEntries, action : {"other", "ticket_issued", "viewed", "denied"}]
FileViewTicket == {"none", "issued", "used", "expired"}
NoRequest == [doing |-> "nothing", ticket |-> NoTicket, entries |-> {}]

AuditTypeOK ==
  /\ alog \subseteq AuditEntry /\ lastId \in 0..MaxEntries /\ chain \in Writers \cup {NoWriter}
  /\ \A w \in Writers : /\ wtx[w].doing \in {"nothing", "other", "ticket_issued", "redeemed", "viewed"}
                        /\ wtx[w].ticket \in Tickets \cup {NoTicket} /\ wtx[w].entries \subseteq AuditEntry
  /\ tickets \in [Tickets -> FileViewTicket] /\ may_read \in BOOLEAN /\ shown \in [Tickets -> Nat]

last_of(rows) == IF rows = {} THEN 0 ELSE CHOOSE i \in {r.id : r \in rows} : \A r \in rows : r.id <= i
next_entry(rows, action) == [id |-> lastId + 1, prev |-> last_of(rows), action |-> action]

\* Mutant: the entry is chained without waiting for the lock.
write_audit_unlocked(w) ==
  /\ wtx[w].doing \in (IF wtx[w].entries = {} THEN {"other", "ticket_issued", "viewed"} ELSE {"other"})
  /\ lastId < MaxEntries
  /\ wtx' = [wtx EXCEPT ![w].entries = @ \cup {next_entry(alog \cup @, wtx[w].doing)}]
  /\ lastId' = lastId + 1 /\ UNCHANGED <<chain, alog, tickets, may_read, shown>>

\* write_audit: waits for the lock of the chain, then reads the last row, its own included.
write_audit(w) ==
  /\ wtx[w].doing \in (IF wtx[w].entries = {} THEN {"other", "ticket_issued", "viewed"} ELSE {"other"})
  /\ lastId < MaxEntries
  /\ chain \in {NoWriter, w} /\ chain' = w
  /\ wtx' = [wtx EXCEPT ![w].entries = @ \cup {next_entry(alog \cup @, wtx[w].doing)}]
  /\ lastId' = lastId + 1 /\ UNCHANGED <<alog, tickets, may_read, shown>>

\* The end of the transaction releases the lock.
ends(w) == /\ wtx' = [wtx EXCEPT ![w] = NoRequest]
           /\ chain' = IF chain = w THEN NoWriter ELSE chain

\* Any audited operation.
begin_other(w) ==
  /\ wtx[w].doing = "nothing"
  /\ wtx' = [wtx EXCEPT ![w].doing = "other"] /\ UNCHANGED <<alog, lastId, chain, tickets, may_read, shown>>

\* post_view_ticket: _authorize_file, then issue.
issue(w, t) ==
  /\ wtx[w].doing = "nothing" /\ may_read /\ tickets[t] = "none"
  /\ \A v \in Writers : wtx[v].ticket # t
  /\ wtx' = [wtx EXCEPT ![w].doing = "ticket_issued", ![w].ticket = t]
  /\ UNCHANGED <<alog, lastId, chain, tickets, may_read, shown>>

\* redeem: one UPDATE, committed before anything else is looked at.
redeem(w, t) ==
  /\ wtx[w].doing = "nothing" /\ tickets[t] = "issued"
  /\ tickets' = [tickets EXCEPT ![t] = "used"]
  /\ wtx' = [wtx EXCEPT ![w].doing = "redeemed", ![w].ticket = t]
  /\ UNCHANGED <<alog, lastId, chain, may_read, shown>>

\* redeem_view_ticket asks can_read_case again.
serve(w) ==
  /\ wtx[w].doing = "redeemed" /\ may_read
  /\ wtx' = [wtx EXCEPT ![w].doing = "viewed"] /\ UNCHANGED <<alog, lastId, chain, tickets, may_read, shown>>

\* The request commits once its entry is written; _serve answers with the image after that.
commits(w) ==
  /\ wtx[w].entries # {}
  /\ alog' = alog \cup wtx[w].entries
  /\ tickets' = IF wtx[w].doing = "ticket_issued" THEN [tickets EXCEPT ![wtx[w].ticket] = "issued"] ELSE tickets
  /\ shown' = IF wtx[w].doing = "viewed" THEN [shown EXCEPT ![wtx[w].ticket] = @ + 1] ELSE shown
  /\ ends(w) /\ UNCHANGED <<lastId, may_read>>

\* An error, a refusal, a crash, a deadlock.
rolls_back(w) ==
  /\ wtx[w].doing # "nothing"
  /\ ends(w) /\ UNCHANGED <<alog, lastId, tickets, may_read, shown>>

\* write_audit_detached: a denial is recorded by a connection of its own, after which the request
\* is rolled back.  With the lock taken, by the request itself or for more than 3 s, it is given up.
write_audit_detached(w) ==
  /\ wtx[w].doing \in {"other", "redeemed"} /\ lastId < MaxEntries
  /\ \/ /\ chain = NoWriter
        /\ alog' = alog \cup {next_entry(alog, "denied")} /\ lastId' = lastId + 1
     \/ chain # NoWriter /\ UNCHANGED <<alog, lastId>>
  /\ ends(w) /\ UNCHANGED <<tickets, may_read, shown>>

\* The case changes hands; tickets expire.
access_changes == may_read' = ~may_read /\ UNCHANGED <<alog, lastId, chain, wtx, tickets, shown>>
ticket_expires(t) ==
  /\ tickets[t] = "issued"
  /\ tickets' = [tickets EXCEPT ![t] = "expired"] /\ UNCHANGED <<alog, lastId, chain, wtx, may_read, shown>>

-------------------------------------------------------------------------------
AuditInit ==
  /\ alog = {} /\ lastId = 0 /\ chain = NoWriter /\ wtx = [w \in Writers |-> NoRequest]
  /\ tickets = [t \in Tickets |-> "none"] /\ may_read = TRUE /\ shown = [t \in Tickets |-> 0]
AuditNext ==
  \/ \E w \in Writers : \/ begin_other(w) \/ write_audit(w) \/ serve(w) \/ commits(w) \/ rolls_back(w)
                        \/ write_audit_detached(w)
                        \/ \E t \in Tickets : issue(w, t) \/ redeem(w, t)
  \/ access_changes \/ \E t \in Tickets : ticket_expires(t)
AuditSpec == AuditInit /\ [][AuditNext]_auditVars

-------------------------------------------------------------------------------
\* verify_chain: read in the order of the ids, every row carries the hash of the one before.
verify_chain == {r \in alog : r.prev # last_of({q \in alog : q.id < r.id})}

\* Concurrent, failed and detached writers never break the chain; and every time a document was
\* shown there is an entry for it, one ticket showing it once, however often it is redeemed.
ChainHoldsEveryView ==
  /\ verify_chain = {}
  /\ Cardinality({r \in alog : r.action = "viewed"}) >= Cardinality({t \in Tickets : shown[t] > 0})
  /\ \A t \in Tickets : shown[t] <= 1
================================================================================
