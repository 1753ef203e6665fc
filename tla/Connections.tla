---------------------------- MODULE Connections ----------------------------
(***************************************************************************)
(* One tool connected to one workspace: the connection's row, the rows of  *)
(* its codes and tokens, and the links and requests (items) its proposals  *)
(* became.  The owner's pause, resume and disconnect load the connection   *)
(* before their transaction, and a save writes only the columns that       *)
(* differ from the copy; a tool's call is let in before it acts.  A new     *)
(* item is checked by a hook before its INSERT, in no transaction.         *)
(*                                                                         *)
(* What a grant lets a tool read is not modelled, nor how the owner's      *)
(* edits of one item interleave with a hold: that is in Links and          *)
(* Requests.                                                               *)
(***************************************************************************)
EXTENDS Integers, FiniteSets

CONSTANTS Items,            \* links and requests the tool may come to own
          Owned,            \* control requests of the owner under way at once
          MaxConnections,   \* bound on connections made, one after the other
          MaxCalls,         \* bound on calls of the tool under way
          ConnectionTtl,    \* ticks a connection lasts
          MaxConnectionTime \* bound on the clock

ASSUME ConnectionsAssumption ==
  /\ MaxConnections \in Nat /\ MaxCalls \in Nat
  /\ ConnectionTtl \in Nat \ {0} /\ MaxConnectionTime \in Nat

VARIABLES conn,      \* the connections row of this tool; id 0: none
          tokenRows, \* the connectionTokens rows, like ones taken as one
          items,     \* the links and requests
          owned,     \* the owner's control requests between load and transaction
          calls,     \* calls let in and not finished, by the connection they act for
          made,      \* connections made so far
          today,     \* the clock
          crossed,   \* history: two control requests overlapped
          gone       \* history: connections disconnected with revokeLinks

connectionVars == <<conn, tokenRows, items, owned, calls, made, today, crossed, gone>>

NoConn == [id |-> 0, paused |-> FALSE, expiresAt |-> 0]
Conns == [id : 0..MaxConnections, paused : BOOLEAN,
          expiresAt : 0..(MaxConnectionTime + ConnectionTtl)]
\* lapsed, history: its connection expired at some time since it was issued.
TokenRows == [holds : {"code", "token"}, conn : 1..MaxConnections, lapsed : BOOLEAN]
\* "checked": about to be inserted. origin is the connection it came from, conn what the
\* row names now (0: cleared); histories: opened, its owner set it to active themselves;
\* missed, what became of the connection between its check and its INSERT.
ItemRows == [status : {"none", "checked", "active", "paused", "revoked"}, held : BOOLEAN,
             origin : 0..MaxConnections, conn : 0..MaxConnections, opened : BOOLEAN,
             missed : {"nothing", "pause", "end"}]
NoItem == [status |-> "none", held |-> FALSE, origin |-> 0, conn |-> 0, opened |-> FALSE,
           missed |-> "nothing"]
IdleOwned == [op |-> "idle", copy |-> NoConn]

ConnectionsInit ==
  /\ conn = NoConn /\ tokenRows = {} /\ items = [i \in Items |-> NoItem]
  /\ owned = [o \in Owned |-> IdleOwned] /\ calls = {}
  /\ made = 0 /\ today = 0 /\ crossed = FALSE /\ gone = {}

ConnectionExpired == conn.expiresAt <= today
Saved(i) == items[i].status \in {"active", "paused", "revoked"}
Mine(i) == items[i].conn = conn.id /\ Saved(i)

-----------------------------------------------------------------------------
(* Connecting. *)

\* Variant: renewing keeps the rows of the lapsed connection.
RowsKeptAll == tokenRows
\* Tokens that lapsed stay dead: renewing an expired connection deletes its rows.
RowsKept == IF ConnectionExpired THEN {r \in tokenRows : r.conn # conn.id} ELSE tokenRows

Code(id) == [holds |-> "code", conn |-> id, lapsed |-> FALSE]

\* The owner connects the tool, new or again, and its expiry is renewed.
Authorize ==
  /\ ~conn.paused
  /\ conn' = [id |-> IF conn.id = 0 THEN made + 1 ELSE conn.id, paused |-> FALSE,
              expiresAt |-> today + ConnectionTtl]
  /\ conn.id = 0 => made < MaxConnections
  /\ made' = IF conn.id = 0 THEN made + 1 ELSE made
  /\ tokenRows' = RowsKept \cup {Code(conn'.id)}
  /\ UNCHANGED <<items, owned, calls, today, crossed, gone>>

\* Another browser of a connected tool: the connection stays as it was.
AuthorizeReuse ==
  /\ conn.id # 0 /\ ~conn.paused /\ ~ConnectionExpired
  /\ tokenRows' = tokenRows \cup {Code(conn.id)}
  /\ UNCHANGED <<conn, items, owned, calls, made, today, crossed, gone>>

\* A code is spent the moment anyone presents it or collects it by polling: it becomes
\* a token, or its row goes with a wrong verifier, a late code or a pause.
Exchange == \E r \in tokenRows, right \in BOOLEAN :
  /\ r.holds = "code"
  /\ tokenRows' = (tokenRows \ {r}) \cup
                  (IF right /\ ~conn.paused THEN {[r EXCEPT !.holds = "token"]} ELSE {})
  /\ UNCHANGED <<conn, items, owned, calls, made, today, crossed, gone>>

-----------------------------------------------------------------------------
(* The tool's calls. *)

Usable(r) == /\ r.holds = "token" /\ r.conn = conn.id
             /\ ~ConnectionExpired /\ ~conn.paused

\* connectionTokenFromRequest lets the call in.
LetIn == \E r \in tokenRows :
  /\ Usable(r) /\ conn.id \notin calls /\ Cardinality(calls) < MaxCalls
  /\ calls' = calls \cup {conn.id}
  /\ UNCHANGED <<conn, tokenRows, items, owned, made, today, crossed, gone>>

\* Variant: the connection is not looked at again as the item is saved.
MayJoinUnchecked(id) == TRUE
\* validateLinkConnection and validateConnected: a new item joins a connection that is
\* there, live and not paused.
MayJoin(id) == id = conn.id /\ ~ConnectionExpired /\ ~conn.paused

CheckedItem(id) == \E i \in Items :
  /\ items[i] = NoItem
  /\ items' = [items EXCEPT ![i] = [NoItem EXCEPT !.status = "checked", !.origin = id,
                                                  !.conn = id]]

\* A share or request the tool makes itself.
CheckByTool == \E id \in calls :
  /\ calls' = calls \ {id}
  /\ IF MayJoin(id) THEN CheckedItem(id) ELSE UNCHANGED items
  /\ UNCHANGED <<conn, tokenRows, owned, made, today, crossed, gone>>

\* A proposal of the tool that the owner saves in the app.
CheckProposal ==
  /\ conn.id # 0 /\ MayJoin(conn.id) /\ CheckedItem(conn.id)
  /\ UNCHANGED <<conn, tokenRows, owned, calls, made, today, crossed, gone>>

\* The INSERT, whatever became of the connection since; or it fails.
InsertItem(i) ==
  /\ items[i].status = "checked"
  /\ items' \in {[items EXCEPT ![i].status = "active"], [items EXCEPT ![i] = NoItem]}
  /\ UNCHANGED <<conn, tokenRows, owned, calls, made, today, crossed, gone>>

\* The tool ends one of its items. A request's save clears held where its copy had it,
\* a link's leaves it.
EndByTool == \E id \in calls, i \in Items, clears \in BOOLEAN :
  /\ items[i].conn = id /\ items[i].status \in {"active", "paused"}
  /\ calls' = calls \ {id}
  /\ items' = [items EXCEPT ![i].status = "revoked", ![i].opened = FALSE,
                            ![i].held = @ /\ ~clears]
  /\ UNCHANGED <<conn, tokenRows, owned, made, today, crossed, gone>>

Cleared(id) == [i \in Items |-> IF items[i].conn = id /\ Saved(i)
                                THEN [items[i] EXCEPT !.conn = 0] ELSE items[i]]

\* The tool disconnects itself: its rows go, its items stay as they are.
Leave == \E id \in calls :
  /\ calls' = calls \ {id}
  /\ conn' = IF conn.id = id THEN NoConn ELSE conn
  /\ tokenRows' = {r \in tokenRows : r.conn # id}
  /\ items' = Cleared(id)
  /\ UNCHANGED <<owned, made, today, crossed, gone>>

-----------------------------------------------------------------------------
(* The owner's controls. *)

LoadOwned(o) ==
  /\ owned[o] = IdleOwned /\ conn.id # 0
  /\ \E op \in {"pause", "resume", "disconnect", "revoke"} :
       owned' = [owned EXCEPT ![o] = [op |-> op, copy |-> conn]]
  /\ crossed' = (crossed \/ \E p \in Owned \ {o} : owned[p] # IdleOwned)
  /\ UNCHANGED <<conn, tokenRows, items, calls, made, today, gone>>

\* What a control does to a row; it finds no row that is only checked.
HeldItem(row) ==
  CASE row.status = "checked" -> [row EXCEPT !.missed = IF @ = "end" THEN @ ELSE "pause"]
    [] row.status = "active" -> [row EXCEPT !.status = "paused", !.held = TRUE, !.opened = FALSE,
                                            !.missed = IF @ = "end" THEN @ ELSE "nothing"]
    [] OTHER -> row
ReleasedItem(row) == IF ~row.held THEN row
                     ELSE [row EXCEPT !.status = IF @ = "paused" THEN "active" ELSE @,
                                      !.held = FALSE]
EndedItem(row, revoke) ==
  IF row.status = "checked" THEN [row EXCEPT !.missed = "end"]
  ELSE [row EXCEPT !.conn = 0, !.held = FALSE, !.status = IF revoke THEN "revoked" ELSE @,
                   !.opened = IF revoke THEN FALSE ELSE @]

Each(id, F(_)) == [i \in Items |-> IF items[i].conn = id /\ items[i].status # "none"
                                   THEN F(items[i]) ELSE items[i]]

\* PauseConnection's and ResumeConnection's transaction: the flag is written when it
\* differs from the copy, and the items are held or released either way.
PauseOrResumeConnection(o) ==
  LET copy == owned[o].copy
      paused == owned[o].op = "pause" IN
  /\ owned[o].op \in {"pause", "resume"}
  /\ conn' = IF conn.id = copy.id /\ copy.paused # paused
             THEN [conn EXCEPT !.paused = paused] ELSE conn
  /\ items' = IF paused THEN Each(copy.id, HeldItem) ELSE Each(copy.id, ReleasedItem)
  /\ owned' = [owned EXCEPT ![o] = IdleOwned]
  /\ UNCHANGED <<tokenRows, calls, made, today, crossed, gone>>

\* DisconnectConnection's transaction: the rows go, the items are revoked or kept.
DisconnectTool(o) ==
  LET id == owned[o].copy.id
      revoke == owned[o].op = "revoke"
      Ended(row) == EndedItem(row, revoke) IN
  /\ owned[o].op \in {"disconnect", "revoke"}
  /\ conn' = IF conn.id = id THEN NoConn ELSE conn
  /\ tokenRows' = {r \in tokenRows : r.conn # id}
  /\ items' = Each(id, Ended)
  /\ gone' = IF revoke /\ conn.id = id THEN gone \cup {id} ELSE gone
  /\ owned' = [owned EXCEPT ![o] = IdleOwned]
  /\ UNCHANGED <<calls, made, today, crossed>>

\* The owner sets an item's status; a link's PATCH also clears held, a request's not.
OwnerEdits == \E i \in Items, status \in {"active", "paused", "revoked"}, clears \in BOOLEAN :
  /\ Saved(i) /\ (clears => items[i].held)
  /\ items' = [items EXCEPT ![i].status = status, ![i].held = @ /\ ~clears,
                            ![i].opened = status = "active"]
  /\ items' # items
  /\ UNCHANGED <<conn, tokenRows, owned, calls, made, today, crossed, gone>>

\* The clock; a connection that has run out takes its rows with it.
TickConnection ==
  /\ today < MaxConnectionTime /\ today' = today + 1
  /\ tokenRows' = {[r EXCEPT !.lapsed = @ \/ (r.conn = conn.id
                                              /\ conn.expiresAt <= today + 1)] : r \in tokenRows}
  /\ UNCHANGED <<conn, items, owned, calls, made, crossed, gone>>

ConnectionsNext ==
  \/ Authorize \/ AuthorizeReuse \/ Exchange \/ LetIn
  \/ CheckByTool \/ CheckProposal \/ (\E i \in Items : InsertItem(i)) \/ EndByTool \/ Leave
  \/ \E o \in Owned : LoadOwned(o) \/ PauseOrResumeConnection(o) \/ DisconnectTool(o)
  \/ OwnerEdits \/ TickConnection

ConnectionsSpec == ConnectionsInit /\ [][ConnectionsNext]_connectionVars

-----------------------------------------------------------------------------
(* Properties. *)

ConnectionsTypeOK ==
  /\ conn \in Conns /\ tokenRows \subseteq TokenRows /\ items \in [Items -> ItemRows]
  /\ owned \in [Owned -> [op : {"idle", "pause", "resume", "disconnect", "revoke"},
                          copy : Conns]]
  /\ calls \subseteq 1..MaxConnections /\ made \in 0..MaxConnections
  /\ today \in 0..MaxConnectionTime
  /\ crossed \in BOOLEAN /\ gone \subseteq 1..MaxConnections

\* connections.go:176 "Tokens that lapsed stay dead": no code or token that was there
\* when the connection ran out lets a call in, whatever renews the connection later.
LapsedStayDead == \A r \in tokenRows : Usable(r) => ~r.lapsed

\* connectionControls.go:108 "PauseConnection refuses the tool's tokens and holds the
\* links and requests it proposed": only an item its owner opened is open meanwhile, and
\* one whose INSERT came after the pause that its check had come before.
PausedHoldsItems ==
  conn.paused => \A i \in Items : Mine(i) /\ items[i].status = "active"
                                   => items[i].opened \/ items[i].missed = "pause"

\* As long as no two of the owner's controls overlap, a pause holds every item, those of a
\* call that was let in before it too unless it was past its check, and no hold outlasts it.
PauseAndHoldsAgree ==
  ~crossed => /\ PausedHoldsItems
              /\ conn.id # 0 /\ ~conn.paused => \A i \in Items : Mine(i) => ~items[i].held

\* A disconnect that revokes leaves nothing of the tool open, whatever was held and
\* whatever call was under way, except what the owner opens themselves and an item whose
\* INSERT was all that was missing.
DisconnectEndsItems ==
  \A i \in Items : items[i].origin \in gone /\ items[i].status = "active"
                     => items[i].opened \/ items[i].missed = "end"
=============================================================================
