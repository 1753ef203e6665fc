---------------------------- MODULE RemoteGrants ----------------------------
(***************************************************************************)
(* One answer that lives on the responder's server and is read from the    *)
(* requester's: the link there, the remoteGrants row and the value cache   *)
(* here, and between them the relay of an answer, the bulk read and the    *)
(* events, which arrive at least once, late and in any order.              *)
(*                                                                         *)
(* A find and the save that follows it with no call to the other server in *)
(* between are one step here; Links models that gap. app.Save writes the   *)
(* columns that changed. At most one answer is being relayed at a time.    *)
(***************************************************************************)
EXTENDS Integers, FiniteSets

CONSTANTS Readers,    \* requests of the requester that read the grant
          Handlers,   \* concurrent batches of events
          MaxAge,     \* GRANT_MAX_AGE, in units of the clock
          MaxStamp,   \* bound on the responder's event clock
          MaxAnswers, \* bound on answers relayed
          MaxLinkEdits, \* bound on the responder's own edits
          MaxRemoteFaults, \* bound on crashes, timeouts and lost events together
          MaxHappenings \* bound on answers, edits and faults together

ASSUME RemoteAssumption ==
  /\ MaxAge \in Nat \ {0} /\ MaxStamp \in Nat
  /\ MaxAnswers \in Nat /\ MaxLinkEdits \in Nat /\ MaxRemoteFaults \in Nat
  /\ MaxHappenings \in Nat

VARIABLES link,    \* the responder's link; its token identifies the answer
          stamp,   \* the responder's clock as events see it
          owner,   \* the responder's request in progress
          relay,   \* the relay of an answer in progress
          accept,  \* its handler on the requester's server
          net,     \* events queued for the requester's server
          row,     \* the requester's remoteGrants row
          handler, \* per batch of events being applied
          reader,  \* per read in progress
          cache,   \* remoteGrantCache
          unreadable, \* history: time since each value in Kept could last be read, capped
          answers, remoteEdits, faults \* bounded counters

remoteVars == <<link, stamp, owner, relay, accept, net, row, handler, reader, cache,
          unreadable, answers, remoteEdits, faults>>

responder == <<link, stamp, owner, unreadable>>
requester == <<row, handler, reader, cache>>
remoteCounters == <<answers, remoteEdits, faults>>

Live == {"active", "paused"}
LinkStatuses == Live \cup {"revoked", "expired"}
Tokens == 0..MaxAnswers            \* 0 for none
Values == 0..(MaxAnswers + MaxLinkEdits)
NoValue == 0

Link == [status : LinkStatuses \cup {"none", "deleted"}, token : Tokens, value : Values]
NoLink == [status |-> "none", token |-> 0, value |-> NoValue]
Event == [at : 0..MaxStamp, status : LinkStatuses]
Result == [status : LinkStatuses \cup {"not_found"}, value : Values]
NoResult == [status |-> "not_found", value |-> NoValue]

\* ttl is what is left of maxAge; an entry past it serves as an ETag only and counts as
\* none. read tells an entry kept by a read from one kept when an answer was accepted.
Cache == [result : Result, ttl : 0..MaxAge, read : BOOLEAN]
NoCache == [result |-> NoResult, ttl |-> 0, read |-> FALSE]
Keep(entry) == IF entry.ttl = 0 \/ entry.result.status = "not_found" THEN NoCache ELSE entry

RemoteRow == [held : BOOLEAN, token : Tokens, status : LinkStatuses, statusAt : 0..MaxStamp]
NoRow == [held |-> FALSE, token |-> 0, status |-> "revoked", statusAt |-> 0]

Owner == [pc : {"idle", "announce", "entry"}, status : LinkStatuses]
NoOwner == [pc |-> "idle", status |-> "revoked"]
Relay == [pc : {"idle", "changed", "post", "posted", "undo", "undone"},
          token : Tokens, before : Link, remoteEdits : 0..MaxLinkEdits]
NoRelay == [pc |-> "idle", token |-> 0, before |-> NoLink, remoteEdits |-> 0]
Accept == [pc : {"idle", "ask", "save", "remember", "accepted", "refused"},
           token : Tokens, value : Values]
NoAccept == [pc |-> "idle", token |-> 0, value |-> NoValue]
Handler == [pc : {"idle", "apply"}, event : Event]
AnEvent == [at |-> 0, status |-> "revoked"]
NoHandler == [pc |-> "idle", event |-> AnEvent]
Reader == [pc : {"idle", "ask", "answered", "write"}, token : Tokens, status : LinkStatuses,
           ttl : 0..MaxAge, result : Result]
NoReader == [pc |-> "idle", token |-> 0, status |-> "revoked",
             ttl |-> 0, result |-> NoResult]

RemoteInit == /\ link = NoLink /\ stamp = 0 /\ owner = NoOwner
              /\ relay = NoRelay /\ accept = NoAccept
              /\ net = {}
              /\ row = NoRow /\ cache = NoCache
              /\ handler = [h \in Handlers |-> NoHandler]
              /\ reader = [q \in Readers |-> NoReader]
              /\ unreadable = [v \in Values |-> MaxAge + 1]
              /\ answers = 0 /\ remoteEdits = 0 /\ faults = 0

Readable(l, v) == l.status = "active" /\ l.value = v
\* The values that reads hold or left in the cache.
Kept == {reader[q].result.value : q \in Readers}
        \cup {v \in Values : cache.read /\ cache.result.value = v}

\* The responder's link changes.
Relink(new) == /\ link' = new
               /\ unreadable' = [v \in Values |-> IF Readable(new, v) THEN 0
                                                  ELSE IF v \in Kept THEN unreadable[v]
                                                  ELSE MaxAge + 1]

\* What is left of the bound on everything that happens to the servers.
MayHappen == answers + remoteEdits + faults < MaxHappenings

Faults == /\ MayHappen /\ faults < MaxRemoteFaults /\ faults' = faults + 1
          /\ UNCHANGED <<answers, remoteEdits>>

\* DispatchGrantEvents: one event, stamped when it is queued.
Send(status) == net' = net \cup {[at |-> stamp, status |-> status]}

-----------------------------------------------------------------------------
(* The responder's own requests, the expiry and the delete of the link. *)

RemoteEdits == /\ MayHappen /\ remoteEdits < MaxLinkEdits
               /\ remoteEdits' = remoteEdits + 1
               /\ UNCHANGED <<answers, faults>>

\* A new status (a PATCH, a settled expiry) or a delete; the hook announces it.
SetStatus ==
  /\ owner.pc = "idle" /\ link.status \in LinkStatuses
  /\ RemoteEdits
  /\ \/ \E s \in LinkStatuses \ {link.status} :
          /\ s = "expired" => link.status \in Live
          /\ Relink([link EXCEPT !.status = s])
          /\ owner' = [pc |-> "announce", status |-> s]
     \/ /\ Relink([link EXCEPT !.status = "deleted"])
        /\ owner' = IF link.status \in Live THEN [pc |-> "announce", status |-> "revoked"]
                    ELSE owner
  /\ UNCHANGED <<stamp, relay, accept, net, requester>>

\* The vault entry behind the answer gets a new value.
EditEntry ==
  /\ owner.pc = "idle" /\ link.status \in LinkStatuses
  /\ RemoteEdits
  /\ Relink([link EXCEPT !.value = MaxAnswers + remoteEdits + 1])
  /\ owner' = [owner EXCEPT !.pc = "entry"]
  /\ UNCHANGED <<stamp, relay, accept, net, requester>>

\* DispatchRecordChanged loads the links that read the entry; only live ones are told.
AnnounceEntry ==
  /\ owner.pc = "entry"
  /\ IF link.status \in Live THEN Send(link.status) ELSE UNCHANGED net
  /\ owner' = NoOwner
  /\ UNCHANGED <<link, stamp, unreadable, relay, accept, requester, remoteCounters>>

AnnounceStatus ==
  /\ owner.pc = "announce"
  /\ Send(owner.status)
  /\ owner' = NoOwner
  /\ UNCHANGED <<link, stamp, unreadable, relay, accept, requester, remoteCounters>>

StampTicks == /\ stamp < MaxStamp
              /\ stamp' = stamp + 1
              /\ UNCHANGED <<link, owner, unreadable, relay, accept, net, requester, remoteCounters>>

-----------------------------------------------------------------------------
(* The relay of an answer, on the responder's server. *)

\* saveRemoteLink: a new link, or the previous answer overwritten and activated.
SaveLink ==
  /\ relay.pc = "idle" /\ accept.pc = "idle"
  /\ link.status # "deleted"
  /\ MayHappen /\ answers < MaxAnswers /\ answers' = answers + 1
  /\ UNCHANGED <<remoteEdits, faults>>
  /\ Relink([status |-> "active", token |-> answers + 1, value |-> answers + 1])
  /\ relay' = [pc |-> IF link.status = "none" THEN "post" ELSE "changed",
               token |-> answers + 1, before |-> link, remoteEdits |-> remoteEdits]
  /\ UNCHANGED <<stamp, owner, accept, net, requester>>

\* The hook of that save: the answer's entries or status changed.
AnnounceAnswer ==
  /\ relay.pc = "changed"
  /\ Send("active")
  /\ relay' = [relay EXCEPT !.pc = "post"]
  /\ UNCHANGED <<responder, accept, requester, remoteCounters>>

Post ==
  /\ relay.pc = "post"
  /\ relay' = [relay EXCEPT !.pc = "posted"]
  /\ accept' = [pc |-> "ask", token |-> relay.token, value |-> NoValue]
  /\ UNCHANGED <<responder, net, requester, remoteCounters>>

\* The requester's server answered.
Accepted ==
  /\ relay.pc = "posted" /\ accept.pc = "accepted"
  /\ relay' = NoRelay /\ accept' = NoAccept
  /\ UNCHANGED <<responder, net, requester, remoteCounters>>

Refused ==
  /\ relay.pc = "posted" /\ accept.pc = "refused"
  /\ relay' = [relay EXCEPT !.pc = "undo"] /\ accept' = NoAccept
  /\ UNCHANGED <<responder, net, requester, remoteCounters>>

\* No answer in time, or it was lost: the handler there may still be running.
TimesOut ==
  /\ relay.pc \in {"post", "posted"}
  /\ Faults
  /\ relay' = [relay EXCEPT !.pc = "undo"]
  /\ UNCHANGED <<responder, accept, net, requester>>

\* A timed-out relay no longer waits for its handler.
Abandoned ==
  /\ relay.pc # "posted" /\ accept.pc \in {"accepted", "refused"}
  /\ accept' = NoAccept
  /\ UNCHANGED <<responder, relay, net, requester, remoteCounters>>

\* What undoRemoteLink puts back on an updated link; the status is not among it.
Restored(before) == [link EXCEPT !.token = before.token, !.value = before.value]

\* undoRemoteLink: a new link is deleted unannounced, an updated one is restored.
Undo ==
  /\ relay.pc = "undo"
  /\ \/ link.status = "deleted" /\ relay' = NoRelay /\ UNCHANGED <<link, unreadable>>
     \/ /\ link.status # "deleted" /\ relay.before.status = "none"
        /\ Relink([link EXCEPT !.status = "deleted"])
        /\ relay' = NoRelay
     \/ /\ link.status # "deleted" /\ relay.before.status # "none"
        /\ Relink(Restored(relay.before))
        /\ relay' = [relay EXCEPT !.pc = "undone"]
  /\ UNCHANGED <<stamp, owner, accept, net, requester, remoteCounters>>

\* The hook of that save announces the entries with the status in the relay's memory.
AnnounceUndo ==
  /\ relay.pc = "undone"
  /\ Send("active")
  /\ relay' = NoRelay
  /\ UNCHANGED <<responder, accept, requester, remoteCounters>>

-----------------------------------------------------------------------------
(* acceptRemoteAnswer, on the requester's server. *)

\* ReadGrants on the responder's server: the token must be the link's, and only an
\* active link yields a value.
Read(token) ==
  IF link.status \in {"none", "deleted"} \/ token # link.token THEN NoResult
  ELSE [status |-> link.status,
        value |-> IF link.status = "active" THEN link.value ELSE NoValue]

\* The gates, then one read of the grant: it must resolve and fit the template.
AskOnce ==
  /\ accept.pc = "ask"
  /\ \/ /\ Read(accept.token).status = "active"
        /\ accept' = [accept EXCEPT !.pc = "save", !.value = link.value]
     \/ accept' = [accept EXCEPT !.pc = "refused"]
  /\ UNCHANGED <<responder, relay, net, requester, remoteCounters>>

\* The row gets the new token, as active and with no event time yet.
SaveRow ==
  /\ accept.pc = "save"
  /\ row' = [held |-> TRUE, token |-> accept.token, status |-> "active", statusAt |-> 0]
  /\ accept' = [accept EXCEPT !.pc = "remember"]
  /\ UNCHANGED <<responder, relay, net, handler, reader, cache, remoteCounters>>

Remember ==
  /\ accept.pc = "remember"
  /\ cache' = [result |-> [status |-> "active", value |-> accept.value],
               ttl |-> MaxAge, read |-> FALSE]
  /\ accept' = [accept EXCEPT !.pc = "accepted"]
  /\ UNCHANGED <<responder, relay, net, row, handler, reader, remoteCounters>>

-----------------------------------------------------------------------------
(* Events: ApplyGrantEvents. *)

\* The batch arrives; a grant not held is ignored, a held one drops from the cache.
\* The reply may be lost, and the event is then sent again.
Deliver(h, e) ==
  /\ handler[h].pc = "idle"
  /\ e \in net
  /\ net' \in {net \ {e}, net}
  /\ IF row.held
     THEN /\ cache' = NoCache
          /\ handler' = [handler EXCEPT ![h] = [pc |-> "apply", event |-> e]]
     ELSE UNCHANGED <<cache, handler>>
  /\ UNCHANGED <<responder, relay, accept, row, reader, remoteCounters>>

\* An event older than the one recorded is ignored.
Fresh(e) == e.at >= row.statusAt

\* One transaction over the row as it is now.
Apply(h) ==
  /\ handler[h].pc = "apply"
  /\ LET e == handler[h].event IN
       row' = IF Fresh(e) THEN [row EXCEPT !.status = e.status, !.statusAt = e.at] ELSE row
  /\ handler' = [handler EXCEPT ![h] = NoHandler]
  /\ UNCHANGED <<responder, relay, accept, net, reader, cache, remoteCounters>>

\* The outbox gave it up, or it was never queued.
LoseEvent == /\ Faults
             /\ \E e \in net : net' = net \ {e}
             /\ UNCHANGED <<responder, relay, accept, requester>>

-----------------------------------------------------------------------------
(* ResolveRemoteGrants. *)

\* A fresh cache entry answers without asking (the read ends here).
Hit(q) == reader[q].pc = "idle" /\ row.held /\ cache.ttl > 0

\* Otherwise the row is copied, and maxAge counts from here.
Ask(q) ==
  /\ reader[q].pc = "idle" /\ row.held /\ ~Hit(q)
  /\ reader' = [reader EXCEPT ![q] = [NoReader EXCEPT
       !.pc = "ask", !.token = row.token, !.status = row.status, !.ttl = MaxAge]]
  /\ UNCHANGED <<responder, relay, accept, net, row, handler, cache, remoteCounters>>

\* The responder's server reads. The ETag is over status and values, so the entry that
\* a 304 item stands for is this result.
Answer(q) ==
  /\ reader[q].pc = "ask"
  /\ reader' = [reader EXCEPT ![q].pc = "answered", ![q].result = Read(reader[q].token)]
  /\ UNCHANGED <<responder, relay, accept, net, row, handler, cache, remoteCounters>>

\* The call failed: the grant is unreachable and yields no value.
Unreachable(q) ==
  /\ reader[q].pc \in {"ask", "answered"}
  /\ reader' = [reader EXCEPT ![q] = NoReader]
  /\ UNCHANGED <<responder, relay, accept, net, row, handler, cache, remoteCounters>>

\* Variant: maxAge counts from when the answer came in.
KeptForFromArrival(q) == MaxAge
\* What is left of maxAge, counted from before the call.
KeptFor(q) == reader[q].ttl

\* A grant that is gone or not ours any more counts as revoked.
Reported(result) == IF result.status = "not_found" THEN "revoked" ELSE result.status

\* Variant: only the cache learns what the read said.
ReceiveUnwritten(q) ==
  /\ reader[q].pc = "answered"
  /\ cache' = Keep([result |-> reader[q].result, ttl |-> KeptFor(q), read |-> TRUE])
  /\ reader' = [reader EXCEPT ![q] = NoReader]
  /\ UNCHANGED <<responder, relay, accept, net, row, handler, remoteCounters>>

\* RememberRemoteGrant; a status that differs from the copy's is written back next.
Receive(q) ==
  /\ reader[q].pc = "answered"
  /\ cache' = Keep([result |-> reader[q].result, ttl |-> KeptFor(q), read |-> TRUE])
  /\ reader' = [reader EXCEPT ![q] =
       IF Reported(@.result) # @.status
       THEN [@ EXCEPT !.pc = "write", !.ttl = 0, !.result.value = NoValue] ELSE NoReader]
  /\ UNCHANGED <<responder, relay, accept, net, row, handler, remoteCounters>>

\* Variant: the copy read before the call is saved whole.
WrittenWhole(q) == [row EXCEPT !.status = Reported(reader[q].result),
                               !.token = reader[q].token]
\* updateRemoteGrant sets the status on the row as it is now.
Written(q) == [row EXCEPT !.status = Reported(reader[q].result)]

WriteBack(q) ==
  /\ reader[q].pc = "write"
  /\ row' = Written(q)
  /\ reader' = [reader EXCEPT ![q] = NoReader]
  /\ UNCHANGED <<responder, relay, accept, net, handler, cache, remoteCounters>>

-----------------------------------------------------------------------------
(* Time and crashes. *)

Less(n) == IF n > 0 THEN n - 1 ELSE 0

RemoteTick ==
  /\ cache' = Keep([cache EXCEPT !.ttl = Less(@)])
  /\ reader' = [q \in Readers |-> [reader[q] EXCEPT !.ttl = Less(@)]]
  /\ unreadable' = [v \in Values |-> IF Readable(link, v) THEN 0
                                     ELSE IF v \in Kept /\ unreadable[v] <= MaxAge
                                     THEN unreadable[v] + 1 ELSE MaxAge + 1]
  /\ UNCHANGED <<link, stamp, owner, relay, accept, net, row, handler, remoteCounters>>

\* The responder's server restarts: the relay and the announcement are gone.
ResponderCrash ==
  /\ Faults
  /\ owner' = NoOwner /\ relay' = NoRelay
  /\ UNCHANGED <<link, stamp, unreadable, accept, net, requester>>

\* The requester's server restarts: only the row is left.
RequesterCrash ==
  /\ Faults
  /\ accept' = IF accept.pc = "idle" THEN accept ELSE [accept EXCEPT !.pc = "refused"]
  /\ cache' = NoCache
  /\ handler' = [h \in Handlers |-> NoHandler]
  /\ reader' = [q \in Readers |-> NoReader]
  /\ UNCHANGED <<responder, relay, net, row>>

AnnounceRemote == AnnounceEntry \/ AnnounceStatus
Settling == \/ AnnounceAnswer \/ Post \/ Accepted \/ Refused
            \/ Abandoned \/ Undo \/ AnnounceUndo
Accepting == AskOnce \/ SaveRow \/ Remember
Reading(q) == Ask(q) \/ Answer(q) \/ Receive(q) \/ WriteBack(q)

RemoteNext == \/ SetStatus \/ EditEntry \/ AnnounceRemote \/ StampTicks
              \/ SaveLink \/ Settling \/ TimesOut \/ Accepting
              \/ \E h \in Handlers : Apply(h) \/ \E e \in net : Deliver(h, e)
              \/ LoseEvent
              \/ \E q \in Readers : Reading(q) \/ Unreachable(q)
              \/ RemoteTick \/ ResponderCrash \/ RequesterCrash

RemoteSpec == RemoteInit /\ [][RemoteNext]_remoteVars

\* The servers' own steps go on; a read that fails now and then gets through in the end,
\* as does the last delivery of an event, whose attempts are bounded (GrantDeliveries);
\* and the requester keeps reading.
DeliverLast == \E h \in Handlers : \E e \in net : Deliver(h, e) /\ e \notin net'
RemoteFairness == /\ WF_remoteVars(AnnounceRemote) /\ WF_remoteVars(RemoteTick)
                  /\ WF_remoteVars(Settling)
                  /\ WF_remoteVars(Accepting)
                  /\ SF_remoteVars(DeliverLast) /\ \A h \in Handlers : WF_remoteVars(Apply(h))
                  /\ \A q \in Readers : /\ WF_remoteVars(Ask(q)) /\ WF_remoteVars(WriteBack(q))
                                        /\ SF_remoteVars(Answer(q)) /\ SF_remoteVars(Receive(q))

LiveSpec == RemoteSpec /\ RemoteFairness

-----------------------------------------------------------------------------
(* Properties. *)

RemoteTypeOK == /\ link \in Link /\ stamp \in 0..MaxStamp
                /\ owner \in Owner /\ relay \in Relay /\ accept \in Accept
                /\ net \subseteq Event
                /\ row \in RemoteRow /\ cache \in Cache
                /\ handler \in [Handlers -> Handler] /\ reader \in [Readers -> Reader]
                /\ unreadable \in [Values -> 0..(MaxAge + 1)]
                /\ answers \in 0..MaxAnswers /\ remoteEdits \in 0..MaxLinkEdits
                /\ faults \in 0..MaxRemoteFaults

\* While nothing times out or crashes, the requester's server holds the token of the
\* link whenever no answer is under way, refused or not: events and reads that race an
\* answer never put an earlier token back (updateRemoteGrant), and a refused answer
\* restores the one still held (undoRemoteLink).
TokensAgree ==
  relay.pc = "idle" /\ accept.pc = "idle" /\ faults = 0 /\ link.status \in LinkStatuses =>
    row.held /\ row.token = link.token

\* A value a read put in the cache is used without asking only while it could still be
\* read from the responder at most maxAge ago, whatever happened between the call and
\* its answer and whichever read finished last (ResolveRemoteGrants takes now first).
KeptAtMostMaxAge ==
  cache.read /\ cache.result.value # NoValue =>
    unreadable[cache.result.value] + cache.ttl <= MaxAge

\* "so the stored one follows the server even when an event was missed": once the
\* responder leaves the grant alone, the requester's row settles on what a read with
\* its token says, after lost, late and repeated events and restarts of either server.
StatusFollows == <>[](row.held => row.status = Reported(Read(row.token)))

\* roadmap.md "If the other server refuses, everything written for the answer is taken
\* back": a refused answer leaves the link's status as it was.
RefusedTakenBack ==
  [][relay.pc = "undo" /\ relay'.pc # "undo" /\ faults = 0 /\ remoteEdits = relay.remoteEdits =>
       \/ link'.status = relay.before.status
       \/ link'.status = "deleted" /\ relay.before.status = "none"]_remoteVars
=============================================================================
