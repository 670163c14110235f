--------------------------- MODULE Notifications ---------------------------
(***************************************************************************)
(* What notifications tell of the real bets: each refresh writes one for   *)
(* each recent bet, and the reader marks them read.                        *)
(* src/notifications/service.ts, src/persistence/notificationRepository.ts,*)
(* src/persistence/agendaRepository.ts, src/application/agenda.ts,         *)
(* src/api/agenda.ts.  The warnings of synchronizations, which the same    *)
(* refresh writes, are in module OperationalSync.                          *)
(*                                                                         *)
(* One lottery, one contest for each bet.  A step is one statement.        *)
(***************************************************************************)
EXTENDS Naturals, Sequences, Functions

CONSTANTS
    Visitors,       \* requests for the agenda served at the same time
    NumBets,
    Recent,         \* bets that listRecent() returns
    MaxNoteFaults   \* bound: statements that fail

ASSUME NotificationsAssumption == {NumBets, Recent, MaxNoteFaults} \subseteq Nat

VARIABLES
    bets,           \* state of each registered bet, oldest first
    drawn,          \* bets whose contest is in the contests table
    told,           \* notifications: what the one of each bet tells
    unread,         \* bets whose notification has no read_at
    visit,          \* the state of each request
    noteFaults      \* statements that have failed

noteVars == <<bets, drawn, told, unread, visit, noteFaults>>

Untold == "untold"
BetOutcomes == {"checked", "settled"}      \* without or with the value of its prize
NotVisiting == [at |-> "none"]

NotesInit ==
    /\ bets = <<>>
    /\ drawn = {}
    /\ told = [b \in 1..NumBets |-> Untold]
    /\ unread = {}
    /\ visit = [v \in Visitors |-> NotVisiting]
    /\ noteFaults = 0

\* The type of the notification of a bet in some state.
NoteOf(state, hasResult) ==
    IF state # "placed" THEN state ELSE IF hasResult THEN "result-available" ELSE "bet-awaiting"

ListRecent == {b \in DOMAIN bets : b > Len(bets) - Recent}
Truth(b) == NoteOf(bets[b], b \in drawn)

\* A bet is registered, its contest is drawn, the bet is checked, its prize
\* becomes known.
BetsChange ==
    /\ \/ /\ Len(bets) < NumBets
          /\ bets' = Append(bets, "placed")
          /\ UNCHANGED drawn
       \/ /\ \E b \in DOMAIN bets \ drawn : drawn' = drawn \cup {b}
          /\ UNCHANGED bets
       \/ /\ \E b \in drawn, o \in BetOutcomes :
                /\ bets[b] \in {"placed", "checked"} \ {o}
                /\ bets' = [bets EXCEPT ![b] = o]
          /\ UNCHANGED drawn
    /\ UNCHANGED <<told, unread, visit, noteFaults>>

VisitAt(v, at) == visit[v].at = at

\* GET /api/v1/agenda, or a synchronization: the refresh starts with the agenda.
Visit(v) ==
    /\ VisitAt(v, "none")
    /\ visit' = [visit EXCEPT ![v] = [at |-> "bets"]]
    /\ UNCHANGED <<bets, drawn, told, unread, noteFaults>>

\* The recent bets ...
ReadBets(v) ==
    /\ VisitAt(v, "bets")
    /\ visit' = [visit EXCEPT ![v] = [at |-> "results", states |-> [b \in ListRecent |-> bets[b]]]]
    /\ UNCHANGED <<bets, drawn, told, unread, noteFaults>>

\* ... and, in a later statement, which of the open ones have a result.
ReadResults(v) ==
    /\ VisitAt(v, "results")
    /\ LET s == visit[v].states
       IN  visit' = [visit EXCEPT ![v] =
             [at |-> "write", notes |-> [b \in DOMAIN s |-> NoteOf(s[b], b \in drawn)]]]
    /\ UNCHANGED <<bets, drawn, told, unread, noteFaults>>

\* An upsert that leaves a notification there is alone.
KeepNote(b, note) == IF told[b] = Untold THEN note ELSE told[b]

\* INSERT ... ON CONFLICT (event_key) DO UPDATE
UpsertNote(b, note) == note

\* One upsert after the other; a text that changes is unread again.
WriteNote(v) ==
    /\ VisitAt(v, "write")
    /\ visit[v].notes # <<>>
    /\ LET todo == DOMAIN visit[v].notes
           b == CHOOSE x \in todo : \A y \in todo : x >= y
       IN  /\ told' = [told EXCEPT ![b] = UpsertNote(b, visit[v].notes[b])]
           /\ unread' = IF told'[b] # told[b] THEN unread \cup {b} ELSE unread
           /\ visit' = [visit EXCEPT ![v].notes = Restrict(@, todo \ {b})]
    /\ UNCHANGED <<bets, drawn, noteFaults>>

\* The list the visitor is shown, together with the count of what is unread.
ShowNotes(v) ==
    /\ VisitAt(v, "write")
    /\ visit[v].notes = <<>>
    /\ visit' = [visit EXCEPT ![v] = NotVisiting]
    /\ UNCHANGED <<bets, drawn, told, unread, noteFaults>>

\* A statement of the refresh fails: it is logged, and the agenda is shown.
RefreshFails(v) ==
    /\ visit[v].at \in {"bets", "results", "write"}
    /\ noteFaults < MaxNoteFaults
    /\ noteFaults' = noteFaults + 1
    /\ visit' = [visit EXCEPT ![v] = NotVisiting]
    /\ UNCHANGED <<bets, drawn, told, unread>>

\* markRead() of a notification, or markAllRead().
MarkRead ==
    /\ \E b \in unread : unread' \in {unread \ {b}, {}}
    /\ UNCHANGED <<bets, drawn, told, visit, noteFaults>>

RefreshStep(v) == ReadBets(v) \/ ReadResults(v) \/ WriteNote(v) \/ ShowNotes(v)

NotesNext ==
    \/ BetsChange \/ MarkRead
    \/ \E v \in Visitors : Visit(v) \/ RefreshStep(v) \/ RefreshFails(v)

\* Requests go on, and the agenda is asked for again and again.
NotesFairness == \A v \in Visitors : WF_noteVars(Visit(v)) /\ WF_noteVars(RefreshStep(v))

NotesSpec == NotesInit /\ [][NotesNext]_noteVars /\ NotesFairness

-----------------------------------------------------------------------------
(* Properties                                                              *)

\* Types. The code behaviour: the types of notifications.
NotesTypeOK ==
    /\ \A b \in DOMAIN bets : bets[b] \in {"placed"} \cup BetOutcomes
    /\ drawn \subseteq DOMAIN bets
    /\ \A b \in 1..NumBets :
          told[b] \in {Untold, "bet-awaiting", "result-available"} \cup BetOutcomes
    /\ unread \subseteq {b \in DOMAIN bets : told[b] # Untold}
    /\ \A v \in Visitors : visit[v].at \in {"none", "bets", "results", "write"}
    /\ noteFaults \in 0..MaxNoteFaults

\* Once nothing changes any more, the notifications of the recent bets tell what is
\* so, although a refresh may write what it read before another wrote something
\* newer (refresh() and its upserts; the next look repairs it).
NewsArrives == \A b \in 1..NumBets :
    <>[](b \in ListRecent => told[b] = Truth(b))
=============================================================================
