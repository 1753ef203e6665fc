------------------------------ MODULE Contacts ------------------------------
(***************************************************************************)
(* Handing a grant to a contact: the one path that writes into another     *)
(* person's account.                                                       *)
(*                                                                         *)
(* Two people, each with a contact row of the other whose address names    *)
(* the other's account ("here") or nobody ("away").  A send is one request *)
(* of one of them; each of its reads and writes is a step.  What a         *)
(* recipient gets (bookmarks) and the ledger are sets of the sends that    *)
(* put something there.  Minting, audit and the notification are left out; *)
(* no code marks a contact verified, so that way to be in touch is absent. *)
(***************************************************************************)
EXTENDS Integers, FiniteSets

CONSTANTS People,       \* two of them
          Sends,
          PairPerDay,   \* ContactPairPerDay
          MaxEdits,     \* bound on the edits of contacts, blocks and members
          MaxLosses     \* bound on failing writes and crashes

ASSUME ContactsAssumption ==
  /\ \E a, b \in People : a # b /\ People = {a, b}
  /\ IsFiniteSet(Sends)
  /\ PairPerDay \in Nat /\ MaxEdits \in Nat /\ MaxLosses \in Nat

VARIABLES contacts,   \* by owner: the address and the cached account
          sharing,    \* those in whose workspace the other one is
          blocks,     \* those who refuse the other one
          send,       \* requests: where each is and what it has read
          bookmarks,  \* trays
          ledger,     \* contactDeliveries
          old,        \* sends longer ago than ContactPairWindow
          edits, losses,
          inTouch,    \* history: those whom anything ever connected to the other
          refusing,   \* history: sends blocked from their first step on
          astray,     \* history: sends checked during another's of the sender, or unrecorded
          settled     \* history: those whose contact was used since its last edit

contactVars == <<contacts, sharing, blocks, send, bookmarks, ledger, old, edits, losses,
                 inTouch, refusing, astray, settled>>
contactHistories == <<inTouch, refusing, astray, settled>>

Other(p) == CHOOSE q \in People : q # p
SendStates ==
  [at : {"none", "minted", "resolved", "marked", "checked", "delivered", "over"},
   from : People \cup {"nobody"}, email : {"here", "away"}, user : BOOLEAN,  \* as loaded
   recipient : BOOLEAN, standing : BOOLEAN, delivered : BOOLEAN,
   answer : {"", "account", "manual", "handed_over"}]
NotSent == [at |-> "none", from |-> "nobody", email |-> "away", user |-> FALSE,
            recipient |-> FALSE, standing |-> FALSE, delivered |-> FALSE, answer |-> ""]
\* A request that is over: of what it read, only what the histories ask about is kept.
Over(s, answer) == [NotSent EXCEPT !.at = "over", !.from = send[s].from, !.answer = answer,
                      !.standing = send[s].standing, !.delivered = send[s].delivered]

By(p) == {s \in Sends : send[s].from = p}
\* Past the check, and not in the ledger yet.
InFlight(s) == send[s].at \in {"checked", "delivered"}
\* contactDeliveries: rows of p's, of all time and of the window.
AllRows(p) == ledger \cap By(p)
RecentRows(p) == AllRows(p) \ old
Connected(p) == p \in sharing \/ AllRows(Other(p)) # {}

ContactsInit ==
  /\ contacts = [p \in People |-> [email |-> "here", user |-> FALSE]]
  /\ sharing = {} /\ blocks = {}
  /\ send = [s \in Sends |-> NotSent]
  /\ bookmarks = {} /\ ledger = {} /\ old = {} /\ edits = 0 /\ losses = 0
  /\ inTouch = {} /\ refusing = {} /\ astray = {} /\ settled = {}

-----------------------------------------------------------------------------
\* authorizeContactGrant and the grant's own save.
MintGrant(p, s) ==
  /\ send[s].at = "none"
  /\ send' = [send EXCEPT ![s] = [NotSent EXCEPT !.at = "minted", !.from = p,
                !.email = contacts[p].email, !.user = contacts[p].user]]
  /\ refusing' = refusing \cup {t \in {s} : Other(p) \in blocks}
  /\ UNCHANGED <<contacts, sharing, blocks, bookmarks, ledger, old, edits, losses,
                 inTouch, astray, settled>>

\* Variant: a grant of one's own counts as being in touch.
StandingEither(p) == Connected(p) \/ AllRows(p) # {}

\* ContactStanding
Standing(p) == Connected(p)

\* ContactAccountHere
ResolveContact(s) ==
  /\ send[s].at = "minted"
  /\ LET here == send[s].email = "here" IN
     send' = [send EXCEPT ![s].at = "resolved", ![s].recipient = here,
                          ![s].standing = here /\ Standing(send[s].from)]
  /\ UNCHANGED <<contacts, sharing, blocks, bookmarks, ledger, old, edits, losses, contactHistories>>

\* The cached account is written where it differs from the contact as loaded.
MarkContactUsed(s) ==
  LET p == send[s].from
      cached == send[s].recipient /\ send[s].standing IN
  /\ send[s].at = "resolved"
  /\ send' = [send EXCEPT ![s].at = "marked"]
  /\ contacts' = IF cached = send[s].user THEN contacts ELSE [contacts EXCEPT ![p].user = cached]
  /\ settled' = settled \cup {q \in {p} : contacts[p].email = send[s].email}
  /\ UNCHANGED <<sharing, blocks, bookmarks, ledger, old, edits, losses, inTouch, refusing, astray>>

\* Variant: being in touch is asked first.
RefusalInTouchFirst(s) ==
  LET p == send[s].from IN
  IF send[s].standing THEN "" ELSE IF Other(p) \in blocks THEN "blocked"
  ELSE IF Cardinality(RecentRows(p)) >= PairPerDay THEN "pair-cap" ELSE ""

\* ContactDeliveryRefusal
Refusal(s) ==
  LET p == send[s].from IN
  IF Other(p) \in blocks THEN "blocked" ELSE IF send[s].standing THEN ""
  ELSE IF PairPerDay > 0 /\ Cardinality(RecentRows(p)) >= PairPerDay THEN "pair-cap" ELSE ""

\* contactGrantAnswer, of a send that was not refused.
Answered(s, delivered) ==
  IF ~send[s].standing THEN "handed_over" ELSE IF delivered THEN "account" ELSE "manual"

CheckDelivery(s) ==
  LET p == send[s].from IN
  /\ send[s].at = "marked" /\ send[s].recipient
  /\ send' = [send EXCEPT ![s] = IF Refusal(s) = "" THEN [@ EXCEPT !.at = "checked"]
                                 ELSE Over(s, "handed_over")]
  /\ astray' = astray \cup {t \in {s} : Refusal(s) = "" /\ \E u \in By(p) \ {s} : InFlight(u)}
  /\ UNCHANGED <<contacts, sharing, blocks, bookmarks, ledger, old, edits, losses,
                 inTouch, refusing, settled>>

\* Nobody of that address here: a mail may be queued, and nobody is told.
EmailContactGrant(s) ==
  /\ send[s].at = "marked" /\ ~send[s].recipient
  /\ send' = [send EXCEPT ![s] = Over(s, Answered(s, FALSE))]
  /\ UNCHANGED <<contacts, sharing, blocks, bookmarks, ledger, old, edits, losses, contactHistories>>

DeliverToContact(s) ==
  /\ send[s].at = "checked"
  /\ send' = [send EXCEPT ![s].at = "delivered", ![s].delivered = TRUE]
  /\ bookmarks' = bookmarks \cup {s}
  /\ UNCHANGED <<contacts, sharing, blocks, ledger, old, edits, losses, contactHistories>>

RecordContactDelivery(s) ==
  /\ send[s].at = "delivered"
  /\ send' = [send EXCEPT ![s] = Over(s, Answered(s, TRUE))]
  /\ ledger' = ledger \cup {s}
  /\ inTouch' = inTouch \cup {Other(send[s].from)}
  /\ UNCHANGED <<contacts, sharing, blocks, bookmarks, old, edits, losses, refusing, astray, settled>>

\* The bookmark or the ledger row is not written; the call goes on.
LoseWrite(s) ==
  /\ losses < MaxLosses /\ losses' = losses + 1
  /\ send[s].at \in {"checked", "delivered"}
  /\ send' = [send EXCEPT ![s] = Over(s, Answered(s, send[s].delivered))]
  /\ astray' = astray \cup {t \in {s} : send[s].delivered}
  /\ UNCHANGED <<contacts, sharing, blocks, bookmarks, ledger, old, edits, inTouch, refusing, settled>>

\* The process stops: no request under way is answered.
CrashSends ==
  /\ losses < MaxLosses /\ losses' = losses + 1
  /\ send' = [s \in Sends |-> IF send[s].at \in {"none", "over"} THEN send[s]
                              ELSE Over(s, "")]
  /\ astray' = astray \cup {s \in Sends : send[s].at = "delivered"}
  /\ UNCHANGED <<contacts, sharing, blocks, bookmarks, ledger, old, edits, inTouch, refusing, settled>>

-----------------------------------------------------------------------------
\* PATCH of a contact: the cached account is the server's and stays.
EditContact(p, email) ==
  /\ email # contacts[p].email /\ contacts' = [contacts EXCEPT ![p].email = email]
  /\ settled' = settled \ {p}
  /\ UNCHANGED <<sharing, blocks, inTouch, refusing>>

Block(p) ==
  /\ p \notin blocks /\ blocks' = blocks \cup {p}
  /\ UNCHANGED <<contacts, sharing, inTouch, refusing, settled>>

LiftBlock(p) ==
  /\ p \in blocks /\ blocks' = blocks \ {p}
  /\ refusing' = refusing \ By(Other(p))
  /\ UNCHANGED <<contacts, sharing, inTouch, settled>>

Share(p) ==
  /\ sharing' = (IF p \in sharing THEN sharing \ {p} ELSE sharing \cup {p})
  /\ inTouch' = inTouch \cup {p}
  /\ UNCHANGED <<contacts, blocks, refusing, settled>>

EditSomething ==
  /\ edits < MaxEdits /\ edits' = edits + 1
  /\ \E p \in People : \/ \E email \in {"here", "away"} : EditContact(p, email)
                       \/ Block(p) \/ LiftBlock(p) \/ Share(p)
  /\ UNCHANGED <<send, bookmarks, ledger, old, losses, astray>>

\* The recipient clears the tray, which changes nothing else.
RemoveBookmark(s) ==
  /\ s \in bookmarks /\ bookmarks' = bookmarks \ {s}
  /\ UNCHANGED <<contacts, sharing, blocks, send, ledger, old, edits, losses, contactHistories>>

LeaveWindow(s) ==
  /\ send[s].at = "over" /\ s \notin old /\ old' = old \cup {s}
  /\ UNCHANGED <<contacts, sharing, blocks, send, bookmarks, ledger, edits, losses, contactHistories>>

ContactsNext ==
  \/ \E s \in Sends :
       \/ (\E p \in People : MintGrant(p, s)) \/ ResolveContact(s) \/ MarkContactUsed(s)
       \/ CheckDelivery(s) \/ EmailContactGrant(s) \/ DeliverToContact(s) \/ RecordContactDelivery(s)
       \/ LoseWrite(s) \/ RemoveBookmark(s) \/ LeaveWindow(s)
  \/ CrashSends \/ EditSomething

ContactsSpec == ContactsInit /\ [][ContactsNext]_contactVars

-----------------------------------------------------------------------------
Unsolicited(p) == {s \in By(p) : send[s].delivered /\ ~send[s].standing}

ContactsTypeOK ==
  /\ contacts \in [People -> [email : {"here", "away"}, user : BOOLEAN]]
  /\ sharing \subseteq People /\ blocks \subseteq People /\ send \in [Sends -> SendStates]
  /\ bookmarks \cup ledger \subseteq {s \in Sends : send[s].delivered} /\ old \subseteq Sends
  /\ edits \in 0..MaxEdits /\ losses \in 0..MaxLosses
  /\ inTouch \cup settled \subseteq People /\ refusing \cup astray \subseteq Sends

\* Neither an answer nor the contact's row says whether an address names an account
\* here, unless something connected the two: their workspace, or a grant that came the
\* other way (contactGrantAnswer, MarkContactUsed, ContactStanding).
StrangersToldNothing ==
  /\ \A s \in Sends : send[s].answer \in {"account", "manual"} => send[s].from \in inTouch
  /\ \A p \in People : contacts[p].user => p \in inTouch

\* A block "holds however long the pair have been in touch": a send that was blocked
\* from its first step on puts nothing in the tray (ContactDeliveryRefusal).
BlockHolds == [][bookmarks' \cap refusing \subseteq bookmarks]_contactVars

\* Sends that count towards the cap: let through with every earlier one in the ledger.
Counted(p) == Unsolicited(p) \ (old \cup astray)

\* Nothing connecting the two, one puts at most PairPerDay grants a day in the other's
\* tray, which clearing the tray does not refill (ContactDeliveryRefusal,
\* RecordContactDelivery). On top of these come only the sends checked while another of
\* the sender's was past its check and not yet in the ledger, and those never recorded.
StrangerCapKept == PairPerDay > 0 => \A p \in People : Cardinality(Counted(p)) <= PairPerDay

\* Whatever overlaps or fails, a stranger learns nothing of who has an account here, and
\* gets no more through than the cap per pair but for the sends that the cap's own check
\* missed, with all variables in their types.
StrangersBounded == ContactsTypeOK /\ StrangersToldNothing /\ StrangerCapKept

\* "The ledger is what makes the per-pair cap exact": the same of all sends.
PairCapExact == PairPerDay > 0 => \A p \in People : Cardinality(Unsolicited(p) \ old) <= PairPerDay

\* "An address that no longer resolves clears the cache rather than leaving a name
\* pointing at an account it stopped naming": a contact used since its last edit caches
\* an account only for an address that names it (MarkContactUsed).
CacheFollowsAddress == \A p \in settled : contacts[p].user => contacts[p].email = "here"
=============================================================================
