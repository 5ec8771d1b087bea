----------------------------- MODULE FriendMail -----------------------------
(***************************************************************************)
(* Letters between the Keeper and the friends: friends/mail.py, the mails  *)
(* table of db.py and the mail routes of server/api.py.                    *)
(*                                                                         *)
(* Ends of conversations, replies of the Keeper and the cadence loop write *)
(* letters at the same time.  Each checks the session cap, waits for the   *)
(* model, delivers the letter, waits for its embedding, and only then      *)
(* stores the state of the friend and counts the letter.  A mail is a row  *)
(* number; its text and its read mark are left out.                        *)
(***************************************************************************)
EXTENDS Integers, Sequences, FiniteSets

CONSTANTS Friends,     \* friend personas with a paired peer
          Callers,     \* requests and conversation ends that can overlap
          Cap,         \* SESSION_MAIL_CAP
          CadenceDays, \* mail.cadence_days
          MaxMails,    \* bound: rows in the mails table
          MaxDay,      \* bound: world days
          MaxLaunches  \* bound: launches of the process

ASSUME FriendsAssumption == Friends # {}
ASSUME CallersAssumption == IsFiniteSet(Callers) /\ "cadence" \notin Callers
ASSUME CapAssumption == Cap \in Nat \ {0} /\ CadenceDays \in Nat \ {0}
ASSUME BoundsAssumption ==
    MaxMails \in Nat /\ MaxDay \in Nat /\ MaxLaunches \in Nat

VARIABLES
    mails,      \* the mails table; the id of a row is its place
    state,      \* friend_state:<friend>: the letter it sums up, and its day
    remembered, \* letters in the friend's own memory stream
    sent,       \* session_mails_sent
    writing,    \* _maybe_generate of each caller
    day,        \* the world day
    saved,      \* the day the last clean shutdown stored
    launches,   \* how often the process was started
    delivered,  \* history: letters inserted in this launch
    routine     \* history: day of the last cadence letter of this launch, or 0

vars == <<mails, state, remembered, sent, writing, day, saved, launches,
          delivered, routine>>

\* The cadence loop is one task and goes through the friends one by one.
Writers == Callers \cup {"cadence"}

Ids == 1 .. Len(mails)

Idle == [stage |-> "idle", friend |-> CHOOSE f \in Friends : TRUE, parent |-> 0,
         letter |-> 0]

Init ==
    /\ mails = <<>>
    /\ state = [f \in Friends |-> [letter |-> 0, day |-> 0]]
    /\ remembered = {}
    /\ sent = 0
    /\ writing = [w \in Writers |-> Idle]
    /\ day = 1
    /\ saved = 1
    /\ launches = 1
    /\ delivered = 0
    /\ routine = [f \in Friends |-> 0]

process == <<day, saved, launches>>

-----------------------------------------------------------------------------
(* Triggers.                                                               *)

\* The part of _maybe_generate before the model is awaited: the call is made
\* only below the cap.
Ask(w, f, parent) ==
    writing' = [writing EXCEPT ![w] = [Idle EXCEPT !.stage = "ask", !.friend = f,
                                                    !.parent = parent]]

\* notify_event: a conversation of the peer paired with f has ended.
NotifyEvent(w, f) ==
    /\ w \in Callers
    /\ writing[w].stage = "idle"
    /\ sent < Cap
    /\ Ask(w, f, 0)
    /\ UNCHANGED <<mails, state, remembered, sent, process, delivered, routine>>

\* maybe_generate_cadence_mail.
CadenceCheck(f) ==
    /\ writing["cadence"].stage = "idle"
    /\ day - state[f].day >= CadenceDays
    /\ sent < Cap
    /\ Ask("cadence", f, 0)
    /\ UNCHANGED <<mails, state, remembered, sent, process, delivered, routine>>

\* Mutant: the letter answers the mail of the friend, not the reply.
ReplyToOriginal(w, id) ==
    /\ w \in Callers
    /\ writing[w].stage = "idle"
    /\ Len(mails) < MaxMails
    /\ mails' = Append(mails, [friend |-> mails[id].friend, direction |-> "out",
                               parent |-> id])
    /\ IF sent < Cap
       THEN Ask(w, mails[id].friend, id)
       ELSE UNCHANGED writing
    /\ UNCHANGED <<state, remembered, sent, process, delivered, routine>>

\* POST /api/mail/{id}/reply: the reply is stored whether or not the cap lets
\* the friend answer it.
Reply(w, id) ==
    /\ w \in Callers
    /\ writing[w].stage = "idle"
    /\ Len(mails) < MaxMails
    /\ mails' = Append(mails, [friend |-> mails[id].friend, direction |-> "out",
                               parent |-> id])
    /\ IF sent < Cap
       THEN Ask(w, mails[id].friend, Len(mails'))
       ELSE UNCHANGED writing
    /\ UNCHANGED <<state, remembered, sent, process, delivered, routine>>

-----------------------------------------------------------------------------
(* Letters.                                                                *)

\* Mutant: the id is read before the row is inserted.
DeliverEarlyId(w) ==
    /\ writing[w].stage = "ask"
    /\ Len(mails) < MaxMails
    /\ mails' = Append(mails, [friend |-> writing[w].friend, direction |-> "in",
                               parent |-> writing[w].parent])
    /\ writing' = [writing EXCEPT ![w].stage = "store", ![w].letter = Len(mails)]
    /\ delivered' = delivered + 1
    /\ routine' = IF w = "cadence" THEN [routine EXCEPT ![writing[w].friend] = day]
                                   ELSE routine
    /\ UNCHANGED <<state, remembered, sent, process>>

\* The model has answered: the letter is in the mailbox, its embedding is
\* awaited.
Deliver(w) ==
    /\ writing[w].stage = "ask"
    /\ Len(mails) < MaxMails
    /\ mails' = Append(mails, [friend |-> writing[w].friend, direction |-> "in",
                               parent |-> writing[w].parent])
    /\ writing' = [writing EXCEPT ![w].stage = "store", ![w].letter = Len(mails')]
    /\ delivered' = delivered + 1
    /\ routine' = IF w = "cadence" THEN [routine EXCEPT ![writing[w].friend] = day]
                                   ELSE routine
    /\ UNCHANGED <<state, remembered, sent, process>>

\* Skipped, invalid or failed.
NoLetter(w) ==
    /\ writing[w].stage = "ask"
    /\ writing' = [writing EXCEPT ![w] = Idle]
    /\ UNCHANGED <<mails, state, remembered, sent, process, delivered, routine>>

\* Mutant: the letter is not counted.
StoreUncounted(w) ==
    /\ writing[w].stage = "store"
    /\ remembered' = remembered \cup {writing[w].letter}
    /\ state' = [state EXCEPT ![writing[w].friend] =
                    [letter |-> writing[w].letter, day |-> day]]
    /\ writing' = [writing EXCEPT ![w] = Idle]
    /\ UNCHANGED <<mails, sent, process, delivered, routine>>

\* Mutant: the state keeps the day of the letter before.
StoreKeepingDay(w) ==
    /\ writing[w].stage = "store"
    /\ remembered' = remembered \cup {writing[w].letter}
    /\ state' = [state EXCEPT ![writing[w].friend].letter = writing[w].letter]
    /\ sent' = sent + 1
    /\ writing' = [writing EXCEPT ![w] = Idle]
    /\ UNCHANGED <<mails, process, delivered, routine>>

\* The memory is written; without a suspension the state of the friend is
\* replaced and the letter counted.
Store(w) ==
    /\ writing[w].stage = "store"
    /\ remembered' = remembered \cup {writing[w].letter}
    /\ state' = [state EXCEPT ![writing[w].friend] =
                    [letter |-> writing[w].letter, day |-> day]]
    /\ sent' = sent + 1
    /\ writing' = [writing EXCEPT ![w] = Idle]
    /\ UNCHANGED <<mails, process, delivered, routine>>

-----------------------------------------------------------------------------
(* The world and the process.                                              *)

NewDay ==
    /\ day < MaxDay
    /\ day' = day + 1
    /\ UNCHANGED <<mails, state, remembered, sent, writing, saved, launches,
                   delivered, routine>>

\* Every letter under way is lost; the count of the session starts over.
Restart ==
    /\ launches < MaxLaunches
    /\ launches' = launches + 1
    /\ sent' = 0
    /\ writing' = [w \in Writers |-> Idle]
    /\ delivered' = 0
    /\ routine' = [f \in Friends |-> 0]
    /\ UNCHANGED <<mails, state>>

Stop ==
    /\ Restart
    /\ saved' = day
    /\ UNCHANGED <<remembered, day>>

Crash ==
    /\ Restart
    /\ day' = saved
    /\ UNCHANGED <<remembered, saved>>

\* Mutant: the state is replaced before the memory is written.
CrashBeforeMemory(w) ==
    /\ writing[w].stage = "store"
    /\ launches < MaxLaunches
    /\ launches' = launches + 1
    /\ state' = [state EXCEPT ![writing[w].friend] =
                    [letter |-> writing[w].letter, day |-> day]]
    /\ sent' = 0 /\ delivered' = 0
    /\ writing' = [x \in Writers |-> Idle]
    /\ routine' = [f \in Friends |-> 0]
    /\ day' = saved
    /\ UNCHANGED <<mails, remembered, saved>>

\* A crash between the transactions of Store.
CrashWhileStoring(w) ==
    /\ writing[w].stage = "store"
    /\ Restart
    /\ remembered' = remembered \cup {writing[w].letter}
    /\ day' = saved
    /\ UNCHANGED saved

Next ==
    \/ \E f \in Friends : CadenceCheck(f) \/ \E w \in Callers : NotifyEvent(w, f)
    \/ \E id \in Ids : \E w \in Callers : Reply(w, id)
    \/ \E w \in Writers : Deliver(w) \/ NoLetter(w) \/ Store(w) \/ CrashWhileStoring(w)
    \/ NewDay \/ Stop \/ Crash

Spec == Init /\ [][Next]_vars

-----------------------------------------------------------------------------
(* Properties.                                                             *)

Mails == [friend : Friends, direction : {"in", "out"}, parent : Nat]
Stages == {"idle", "ask", "store"}

\* The table holds mails, every caller is at a stage of _maybe_generate, and the
\* counters are numbers.
TypeOK ==
    /\ mails \in Seq(Mails)
    /\ remembered \subseteq Ids
    /\ state \in [Friends -> [letter : Nat, day : Nat]]
    /\ writing \in [Writers -> [stage : Stages, friend : Friends, parent : Nat,
                                letter : Nat]]
    /\ sent \in Nat /\ delivered \in Nat /\ launches \in Nat
    /\ day \in Nat /\ saved \in Nat
    /\ routine \in [Friends -> Nat]

\* The cap is checked before the model is awaited and counted after the letter
\* is stored, so a session may go over it, which the docstring of the module has
\* as a cap, but only by what overlaps: one letter for every other caller
\* (_maybe_generate).
CapOvershootBounded == delivered <= Cap + Cardinality(Callers)

\* What a friend's peer tells as hearsay comes from a letter of that very friend
\* which is in the mailbox and in the friend's own memory, through any overlap
\* and any crash (hearsay_text, friend_state).
HearsayHasLetter ==
    \A f \in Friends :
        LET id == state[f].letter
        IN  id # 0 => /\ id \in Ids
                      /\ mails[id].friend = f /\ mails[id].direction = "in"
                      /\ id \in remembered

\* The thread of a mail can be walked back to its root: a parent is an earlier
\* mail of the same friend, a letter only answers a reply, and no reply is
\* answered twice, however the letters overlap (reply, _maybe_generate).
ThreadsAreWhole ==
    \A i \in Ids : mails[i].parent # 0 =>
        /\ mails[i].parent < i
        /\ mails[mails[i].parent].friend = mails[i].friend
        /\ mails[i].direction = "in" =>
             /\ mails[mails[i].parent].direction = "out"
             /\ \A j \in Ids : mails[j].direction = "in" /\ mails[j].parent = mails[i].parent
                                 => i = j

\* Within a launch two routine letters of one friend are at least the cadence
\* apart, although the first has been delivered well before the state it is
\* measured by is stored (maybe_generate_cadence_mail).
CadenceKept ==
    [][\A f \in Friends :
           Deliver("cadence") /\ writing["cadence"].friend = f /\ routine[f] # 0
               => day - routine[f] >= CadenceDays]_vars
=============================================================================
