----------------------------- MODULE Reminders -----------------------------
(***************************************************************************)
(* One reminder on one vault entry: of a date, which a pass of the         *)
(* scheduler finds every minute, or of a change, which the hook of a save  *)
(* of the entry finds.  Both fire it from the copy they loaded: a guarded  *)
(* update marks it, then its owner is told.  The owner edits it meanwhile, *)
(* from a copy loaded before; an update writes what differs from the copy. *)
(***************************************************************************)
EXTENDS Integers, FiniteSets

CONSTANTS Passes,       \* passes of the scheduler, and saves of the entry
          MaxTime,      \* bound on the clock, in the reminder's own granularity
          MaxPatches    \* bound on the owner's edits

ASSUME RemindersAssumption ==
  IsFiniteSet(Passes) /\ MaxTime \in Nat \ {0} /\ MaxPatches \in Nat

VARIABLES now,
          reminder,   \* the row
          pass,       \* what each pass is doing
          patch,      \* the owner's edit: the row as loaded, while it is open
          inWorkspace, \* the owner is in the entry's workspace
          patches,
          told,       \* history: notifications
          armings     \* history: times the row was armed

reminderVars == <<now, reminder, pass, patch, inWorkspace, patches, told, armings>>

Rows == [kind : {"date", "change"}, due : 0..MaxTime, fired : BOOLEAN, note : BOOLEAN, live : BOOLEAN]
PassStates == {"idle", "loaded", "marked"}
Closed == [open |-> FALSE, loaded |-> [kind |-> "date", due |-> 0, fired |-> FALSE,
                                       note |-> FALSE, live |-> FALSE]]

RemindersInit ==
  /\ now = 0 /\ inWorkspace = TRUE
  /\ reminder \in {r \in Rows : r.live /\ ~r.fired /\ ~r.note /\ (r.kind = "change" => r.due = 0)}
  /\ pass = [p \in Passes |-> "idle"] /\ patch = Closed /\ patches = 0
  /\ told = 0 /\ armings = 1

-----------------------------------------------------------------------------
\* FireDueReminders finds it.
LoadDue(p) ==
  /\ pass[p] = "idle" /\ reminder.live /\ ~reminder.fired
  /\ reminder.kind = "date" /\ reminder.due <= now
  /\ pass' = [pass EXCEPT ![p] = "loaded"]
  /\ UNCHANGED <<now, reminder, patch, inWorkspace, patches, told, armings>>

\* A save of the entry, or of the one it reads through, whose content changed:
\* FireChangeReminders finds it.
LoadChanged(p) ==
  /\ pass[p] = "idle" /\ reminder.live /\ ~reminder.fired /\ reminder.kind = "change"
  /\ pass' = [pass EXCEPT ![p] = "loaded"]
  /\ UNCHANGED <<now, reminder, patch, inWorkspace, patches, told, armings>>

\* Variant: whoever loaded it fires it.
MarkableAsLoaded == reminder.live

\* The guard of the update; an error ends the pass as well.
Markable == reminder.live /\ ~reminder.fired
MarkFired(p) ==
  /\ pass[p] = "loaded" /\ Markable
  /\ reminder' = [reminder EXCEPT !.fired = TRUE]
  /\ pass' = [pass EXCEPT ![p] = "marked"]
  /\ UNCHANGED <<now, patch, inWorkspace, patches, told, armings>>

LeaveReminder(p) ==
  /\ pass[p] = "loaded" /\ pass' = [pass EXCEPT ![p] = "idle"]
  /\ UNCHANGED <<now, reminder, patch, inWorkspace, patches, told, armings>>

\* EmitNotification, which a former member, a deleted entry or a failing save misses.
TellOwner(p) ==
  /\ pass[p] = "marked" /\ pass' = [pass EXCEPT ![p] = "idle"]
  /\ told' \in {told} \cup {told + 1 : m \in {TRUE} \cap {inWorkspace}}
  /\ UNCHANGED <<now, reminder, patch, inWorkspace, patches, armings>>

-----------------------------------------------------------------------------
OpenReminderPatch ==
  /\ ~patch.open /\ patches < MaxPatches /\ inWorkspace /\ reminder.live
  /\ patch' = [open |-> TRUE, loaded |-> reminder] /\ patches' = patches + 1
  /\ UNCHANGED <<now, reminder, pass, inWorkspace, told, armings>>

\* prepareReminder: firedAt may be cleared and never set; another condition clears it.
Prepared(old, new) ==
  [new EXCEPT !.due = IF new.kind = "change" THEN 0 ELSE @,
              !.fired = /\ old.fired /\ new.fired
                        /\ old.kind = new.kind /\ (new.kind = "date" => old.due = new.due)]

\* Only the columns that differ from the copy are written.
Written(old, new) ==
  [kind |-> IF new.kind = old.kind THEN reminder.kind ELSE new.kind,
   due |-> IF new.due = old.due THEN reminder.due ELSE new.due,
   fired |-> IF new.fired = old.fired THEN reminder.fired ELSE new.fired,
   note |-> IF new.note = old.note THEN reminder.note ELSE new.note,
   live |-> reminder.live]

SaveReminderPatch ==
  /\ patch.open /\ patch' = Closed
  /\ \E kind \in {"date", "change"}, due \in 0..MaxTime, fired \in BOOLEAN, note \in BOOLEAN :
       LET old == patch.loaded
           new == Prepared(old, [old EXCEPT !.kind = kind, !.due = due, !.fired = fired, !.note = note])
       IN /\ reminder' = IF reminder.live /\ inWorkspace THEN Written(old, new) ELSE reminder
          /\ armings' = IF old.fired /\ (kind # old.kind \/ (kind = "date" /\ due # old.due) \/ ~fired)
                        THEN armings + 1 ELSE armings
  /\ UNCHANGED <<now, pass, inWorkspace, patches, told>>

DeleteReminder ==
  /\ reminder.live /\ reminder' = [reminder EXCEPT !.live = FALSE]
  /\ UNCHANGED <<now, pass, patch, inWorkspace, patches, told, armings>>

LeaveWorkspace ==
  /\ inWorkspace /\ inWorkspace' = FALSE
  /\ UNCHANGED <<now, reminder, pass, patch, patches, told, armings>>

TickReminders ==
  /\ now < MaxTime /\ now' = now + 1
  /\ UNCHANGED <<reminder, pass, patch, inWorkspace, patches, told, armings>>

\* The process stops; the scheduler starts over.
RestartReminders ==
  /\ \E p \in Passes : pass[p] # "idle"
  /\ pass' = [p \in Passes |-> "idle"] /\ patch' = Closed
  /\ UNCHANGED <<now, reminder, inWorkspace, patches, told, armings>>

RemindersNext ==
  \/ \E p \in Passes : LoadDue(p) \/ LoadChanged(p) \/ MarkFired(p) \/ LeaveReminder(p) \/ TellOwner(p)
  \/ OpenReminderPatch \/ SaveReminderPatch \/ DeleteReminder \/ LeaveWorkspace \/ TickReminders \/ RestartReminders

RemindersSpec == RemindersInit /\ [][RemindersNext]_reminderVars

-----------------------------------------------------------------------------
RemindersTypeOK ==
  /\ now \in 0..MaxTime /\ reminder \in Rows /\ pass \in [Passes -> PassStates]
  /\ patch \in [open : BOOLEAN, loaded : Rows] /\ inWorkspace \in BOOLEAN
  /\ patches \in 0..MaxPatches /\ told \in 0..(MaxPatches + 1) /\ armings \in 1..(MaxPatches + 1)

\* "A reminder fires once even if two passes reach it": its owner is told at most once
\* for each time it was armed, by an edit of its condition or a clearing of the mark
\* (fireReminder, prepareReminder).
ToldOncePerArming == told <= armings

\* "A changed condition is a new reminder and arms it too": one whose date has been moved
\* to the future has not fired, whatever pass was under way.
MovedIsArmed == reminder.live /\ reminder.kind = "date" /\ reminder.fired => reminder.due <= now
=============================================================================
