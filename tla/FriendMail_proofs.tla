-------------------------- MODULE FriendMail_proofs --------------------------
(***************************************************************************)
(* Theorems about FriendMail, for any friends, callers, cap and bounds.    *)
(***************************************************************************)
EXTENDS FriendMail, FiniteSetTheorems, TLAPS

Busy == {w \in Writers : writing[w].stage # "idle"}
Storing == {w \in Writers : writing[w].stage = "store"}

\* The letters of this launch are counted or about to be, and no more callers are
\* busy than were let in below the cap.
Counting ==
    /\ delivered = sent + Cardinality(Storing)
    /\ sent + Cardinality(Busy) <= Cap + Cardinality(Callers)

\* A letter about to be stored is in the mailbox.
LettersDelivered ==
    \A w \in Writers : writing[w].stage = "store" =>
        /\ writing[w].letter \in Ids
        /\ mails[writing[w].letter].friend = writing[w].friend
        /\ mails[writing[w].letter].direction = "in"

\* A letter about to be written answers a reply that has no answer and gets none
\* from another caller.
RepliesUnanswered ==
    \A w \in Writers : writing[w].stage = "ask" /\ writing[w].parent # 0 =>
        /\ writing[w].parent \in Ids
        /\ mails[writing[w].parent].friend = writing[w].friend
        /\ mails[writing[w].parent].direction = "out"
        /\ \A j \in Ids : mails[j].direction = "in" => mails[j].parent # writing[w].parent
        /\ \A v \in Writers : writing[v].stage = "ask" /\ writing[v].parent = writing[w].parent
                                => v = w

Inv == TypeOK /\ Counting /\ LettersDelivered /\ RepliesUnanswered
           /\ HearsayHasLetter /\ ThreadsAreWhole

-----------------------------------------------------------------------------
(* Counting callers.                                                       *)

\* The loop is one writer more than the callers.
LEMMA WritersCount ==
    /\ IsFiniteSet(Writers)
    /\ Cardinality(Writers) = Cardinality(Callers) + 1
    /\ Cardinality(Callers) \in Nat
    BY CallersAssumption, FS_AddElement, FS_CardinalityType DEF Writers

\* Some of the writers are at most all of them.
LEMMA SomeWriters ==
    ASSUME NEW S, S \subseteq Writers
    PROVE  /\ IsFiniteSet(S)
           /\ Cardinality(S) \in Nat
           /\ Cardinality(S) <= Cardinality(Callers) + 1
           /\ \A w \in S : Cardinality(S \ {w}) = Cardinality(S) - 1
           /\ \A w \in Writers \ S : Cardinality(S \cup {w}) = Cardinality(S) + 1
           /\ \A T \in SUBSET S : Cardinality(T) <= Cardinality(S)
    <1>1. IsFiniteSet(S) /\ Cardinality(S) <= Cardinality(Writers)
      BY WritersCount, FS_Subset
    <1>2. Cardinality(S) \in Nat
      BY <1>1, FS_CardinalityType
    <1>3. \A w \in S : Cardinality(S \ {w}) = Cardinality(S) - 1
      BY <1>1, FS_RemoveElement
    <1>4. \A w \in Writers \ S : Cardinality(S \cup {w}) = Cardinality(S) + 1
      BY <1>1, FS_AddElement
    <1>5. \A T \in SUBSET S : Cardinality(T) <= Cardinality(S)
      BY <1>1, FS_Subset
    <1>6. QED
      BY <1>1, <1>2, <1>3, <1>4, <1>5, WritersCount

\* Who is idle and who is not, after the entry of one writer has changed.
LEMMA OneWriterChanges ==
    ASSUME TypeOK, NEW w \in Writers, NEW e, writing' = [writing EXCEPT ![w] = e]
    PROVE  /\ Busy' = IF e.stage # "idle" THEN Busy \cup {w} ELSE Busy \ {w}
           /\ Storing' = IF e.stage = "store" THEN Storing \cup {w} ELSE Storing \ {w}
    BY DEF TypeOK, Busy, Storing

LEMMA IdleTypes ==
    /\ Idle \in [stage : Stages, friend : Friends, parent : Nat, letter : Nat]
    /\ Idle.stage = "idle" /\ Idle.parent = 0 /\ Idle.letter = 0
    BY FriendsAssumption DEF Idle, Stages

-----------------------------------------------------------------------------
(* The steps.                                                              *)

LEMMA InitInv == Init => Inv
    <1> SUFFICES ASSUME Init PROVE Inv
      OBVIOUS
    <1>1. TypeOK
      BY IdleTypes, FriendsAssumption DEF Init, TypeOK, Ids
    <1>2. Busy = {} /\ Storing = {}
      BY IdleTypes DEF Init, Busy, Storing
    <1>3. Counting
      BY <1>2, FS_EmptySet, WritersCount, CapAssumption DEF Init, Counting
    <1>4. LettersDelivered /\ RepliesUnanswered /\ HearsayHasLetter /\ ThreadsAreWhole
      BY IdleTypes
         DEF Init, LettersDelivered, RepliesUnanswered, HearsayHasLetter, ThreadsAreWhole, Ids
    <1>5. QED
      BY <1>1, <1>3, <1>4 DEF Inv

\* A call that starts below the cap keeps the count.
LEMMA AskKeepsCounting ==
    ASSUME Inv, NEW w \in Writers, writing[w].stage = "idle", sent < Cap,
           NEW f \in Friends, NEW parent \in Nat, Ask(w, f, parent),
           UNCHANGED <<sent, delivered>>
    PROVE  /\ writing' \in [Writers -> [stage : Stages, friend : Friends, parent : Nat,
                                        letter : Nat]]
           /\ writing'[w].stage = "ask" /\ writing'[w].friend = f
           /\ writing'[w].parent = parent
           /\ \A v \in Writers \ {w} : writing'[v] = writing[v]
           /\ Counting'
    <1> DEFINE e == [Idle EXCEPT !.stage = "ask", !.friend = f, !.parent = parent]
    <1>1. e \in [stage : Stages, friend : Friends, parent : Nat, letter : Nat]
          /\ e.stage = "ask" /\ e.friend = f /\ e.parent = parent
      BY IdleTypes DEF Stages
    <1>2. writing' = [writing EXCEPT ![w] = e]
      BY DEF Ask
    <1> HIDE DEF e
    <1>3. Busy' = Busy \cup {w} /\ Storing' = Storing \ {w}
      BY <1>1, <1>2, OneWriterChanges DEF Inv
    <1>4. w \notin Storing
      BY DEF Storing
    <1>5. Storing' = Storing
      BY <1>3, <1>4
    <1>6. Cardinality(Busy') \in Nat /\ Cardinality(Busy') <= Cardinality(Callers) + 1
      BY <1>3, SomeWriters DEF Busy
    <1>7. Counting'
      <2>1. sent \in Nat
        BY DEF Inv, TypeOK
      <2>2. sent + Cardinality(Busy') <= Cap + Cardinality(Callers)
        BY <1>6, <2>1, WritersCount, CapAssumption
      <2>3. QED
        BY <1>5, <2>2 DEF Inv, Counting
    <1>8. QED
      BY <1>1, <1>2, <1>7 DEF Inv, TypeOK

\* An event or the cadence starts a letter that answers nothing.
LEMMA TriggerStep ==
    ASSUME Inv, NEW w \in Writers, NEW f \in Friends,
           writing[w].stage = "idle", sent < Cap, Ask(w, f, 0),
           UNCHANGED <<mails, state, remembered, sent, process, delivered, routine>>
    PROVE  Inv'
    <1>1. /\ writing[w].stage = "idle" /\ sent < Cap /\ Ask(w, f, 0)
          /\ UNCHANGED <<mails, state, remembered, sent, process, delivered, routine>>
      OBVIOUS
    <1>2. /\ writing' \in [Writers -> [stage : Stages, friend : Friends, parent : Nat,
                                       letter : Nat]]
          /\ writing'[w].stage = "ask" /\ writing'[w].friend = f
          /\ writing'[w].parent = 0
          /\ \A v \in Writers \ {w} : writing'[v] = writing[v]
          /\ Counting'
      BY <1>1, AskKeepsCounting
    <1>3. TypeOK'
      BY <1>1, <1>2 DEF Inv, TypeOK, Ids, process
    <1>4. LettersDelivered'
      BY <1>1, <1>2 DEF Inv, LettersDelivered, Ids
    <1>5. RepliesUnanswered'
      BY <1>1, <1>2 DEF Inv, RepliesUnanswered, Ids
    <1>6. HearsayHasLetter' /\ ThreadsAreWhole'
      BY <1>1 DEF Inv, HearsayHasLetter, ThreadsAreWhole, Ids
    <1>7. QED
      BY <1>2, <1>3, <1>4, <1>5, <1>6 DEF Inv

\* A row is a mail.
LEMMA RowTypes ==
    ASSUME TypeOK, NEW i \in Ids
    PROVE  i \in Nat /\ mails[i] \in Mails /\ mails[i].parent \in Nat
    <1>1. i \in Nat /\ mails[i] \in Mails
      BY DEF TypeOK, Ids
    <1>2. QED
      BY <1>1 DEF Mails

\* A mail appended to the table leaves the others as they are.
LEMMA AppendKeepsMails ==
    ASSUME TypeOK, NEW m \in Mails, mails' = Append(mails, m)
    PROVE  /\ mails' \in Seq(Mails)
           /\ Len(mails') = Len(mails) + 1 /\ Len(mails) \in Nat
           /\ Ids' = Ids \cup {Len(mails')} /\ Len(mails') \notin Ids
           /\ \A i \in Ids : mails'[i] = mails[i]
           /\ mails'[Len(mails')] = m
    BY DEF TypeOK, Ids

\* The other parts do not mind a new mail that nothing refers to.
LEMMA AppendKeepsStates ==
    ASSUME Inv, NEW m \in Mails, mails' = Append(mails, m), UNCHANGED <<state, remembered>>
    PROVE  HearsayHasLetter'
    BY AppendKeepsMails DEF Inv, HearsayHasLetter

LEMMA ReplyStep ==
    ASSUME Inv, NEW w \in Callers, NEW id \in Ids, Reply(w, id)
    PROVE  Inv'
    <1> DEFINE m == [friend |-> mails[id].friend, direction |-> "out", parent |-> id]
               n == Len(mails')
    <1>1. /\ writing[w].stage = "idle" /\ mails' = Append(mails, m)
          /\ UNCHANGED <<state, remembered, sent, process, delivered, routine>>
      BY DEF Reply
    <1>2. m \in Mails /\ id \in Nat /\ mails[id].friend \in Friends
      <2>1. id \in Nat /\ mails[id] \in Mails
        BY RowTypes DEF Inv
      <2>2. QED
        BY <2>1 DEF Mails
    <1>3. m.friend = mails[id].friend /\ m.direction = "out" /\ m.parent = id
      OBVIOUS
    <1>4. w \in Writers
      BY DEF Writers
    <1> HIDE DEF m
    <1>5. /\ mails' \in Seq(Mails)
          /\ n = Len(mails) + 1 /\ Len(mails) \in Nat
          /\ Ids' = Ids \cup {n} /\ n \notin Ids
          /\ \A i \in Ids : mails'[i] = mails[i]
          /\ mails'[n] = m
      BY <1>1, <1>2, AppendKeepsMails DEF Inv
    <1>6. HearsayHasLetter'
      BY <1>1, <1>2, AppendKeepsStates
    <1>7. ThreadsAreWhole'
      <2>1. id < n
        BY <1>5 DEF Ids
      <2>2. ASSUME NEW i \in Ids, mails[i].parent # 0
            PROVE  mails[i].parent \in Ids
        <3>1. mails[i].parent \in Nat /\ mails[i].parent < i
          BY <2>2, RowTypes DEF Inv, ThreadsAreWhole, Mails
        <3>2. QED
          BY <2>2, <3>1, <1>5 DEF Ids
      <2>3. QED
        BY <1>3, <1>5, <2>1, <2>2 DEF Inv, ThreadsAreWhole
    <1>8. CASE UNCHANGED writing
      <2>1. TypeOK' /\ Counting'
        BY <1>1, <1>5, <1>8
           DEF Inv, TypeOK, Counting, Busy, Storing, process
      <2>2. LettersDelivered' /\ RepliesUnanswered'
        BY <1>3, <1>5, <1>8 DEF Inv, LettersDelivered, RepliesUnanswered
      <2>3. QED
        BY <1>6, <1>7, <2>1, <2>2 DEF Inv
    <1>9. CASE sent < Cap /\ Ask(w, mails[id].friend, n)
      <2>1. /\ writing' \in [Writers -> [stage : Stages, friend : Friends, parent : Nat,
                                         letter : Nat]]
            /\ writing'[w].stage = "ask" /\ writing'[w].friend = mails[id].friend
            /\ writing'[w].parent = n
            /\ \A v \in Writers \ {w} : writing'[v] = writing[v]
            /\ Counting'
        <3>1. n \in Nat
          BY <1>5
        <3>2. QED
          BY <1>1, <1>2, <1>4, <1>9, <3>1, AskKeepsCounting
      <2>2. TypeOK'
        BY <1>1, <1>5, <2>1 DEF Inv, TypeOK, process
      <2>3. LettersDelivered'
        BY <1>5, <2>1 DEF Inv, LettersDelivered
      <2>4. RepliesUnanswered'
        <3>1. \A j \in Ids : mails[j].parent # n
          <4>1. ASSUME NEW j \in Ids, mails[j].parent = n
                PROVE  FALSE
            <5>1. mails[j].parent # 0
              BY <1>5, <4>1
            <5>2. n < j
              BY <4>1, <5>1 DEF Inv, ThreadsAreWhole
            <5>3. QED
              BY <1>5, <5>2 DEF Ids
          <4>2. QED
            BY <4>1
        <3>2. \A v \in Writers \ {w} :
                 writing[v].stage = "ask" /\ writing[v].parent # 0 => writing[v].parent # n
          BY <1>5 DEF Inv, RepliesUnanswered
        <3>3. n # 0
          BY <1>5
        <3>4. ASSUME NEW v \in Writers, writing'[v].stage = "ask", writing'[v].parent # 0
              PROVE  /\ writing'[v].parent \in Ids'
                     /\ mails'[writing'[v].parent].friend = writing'[v].friend
                     /\ mails'[writing'[v].parent].direction = "out"
                     /\ \A j \in Ids' : mails'[j].direction = "in"
                                          => mails'[j].parent # writing'[v].parent
                     /\ \A u \in Writers : /\ writing'[u].stage = "ask"
                                             /\ writing'[u].parent = writing'[v].parent
                                             => u = v
          <4>1. CASE v = w
            BY <1>3, <1>5, <2>1, <3>1, <3>2, <3>3, <4>1
          <4>2. CASE v # w
            <5>1. writing'[v] = writing[v]
              BY <2>1, <4>2
            <5>2. /\ writing[v].parent \in Ids
                  /\ mails[writing[v].parent].friend = writing[v].friend
                  /\ mails[writing[v].parent].direction = "out"
                  /\ \A j \in Ids : mails[j].direction = "in"
                                       => mails[j].parent # writing[v].parent
                  /\ \A u \in Writers : writing[u].stage = "ask"
                                            /\ writing[u].parent = writing[v].parent => u = v
              BY <3>4, <5>1 DEF Inv, RepliesUnanswered
            <5>3. writing'[w].parent # writing[v].parent
              BY <1>5, <2>1, <5>2
            <5>4. QED
              BY <1>3, <1>5, <2>1, <5>1, <5>2, <5>3
          <4>3. QED
            BY <4>1, <4>2
        <3>5. QED
          BY <3>4 DEF RepliesUnanswered
      <2>5. QED
        BY <1>6, <1>7, <2>1, <2>2, <2>3, <2>4 DEF Inv
    <1>10. QED
      BY <1>8, <1>9 DEF Reply, m

LEMMA DeliverStep ==
    ASSUME Inv, NEW w \in Writers, Deliver(w)
    PROVE  Inv'
    <1> DEFINE m == [friend |-> writing[w].friend, direction |-> "in",
                     parent |-> writing[w].parent]
               e == [writing[w] EXCEPT !.stage = "store", !.letter = Len(mails')]
               n == Len(mails')
    <1>1. /\ writing[w].stage = "ask" /\ mails' = Append(mails, m)
          /\ delivered' = delivered + 1
          /\ routine' \in {routine, [routine EXCEPT ![writing[w].friend] = day]}
          /\ UNCHANGED <<state, remembered, sent, process>>
      BY DEF Deliver
    <1>2. writing' = [writing EXCEPT ![w] = e]
      BY DEF Deliver
    <1>3. writing[w] \in [stage : Stages, friend : Friends, parent : Nat, letter : Nat]
      BY DEF Inv, TypeOK
    <1>4. /\ m \in Mails /\ m.friend = writing[w].friend
          /\ m.direction = "in" /\ m.parent = writing[w].parent
      BY <1>3 DEF Mails
    <1> HIDE DEF m
    <1>5. /\ mails' \in Seq(Mails)
          /\ n = Len(mails) + 1 /\ Len(mails) \in Nat
          /\ Ids' = Ids \cup {n} /\ n \notin Ids
          /\ \A i \in Ids : mails'[i] = mails[i]
          /\ mails'[n] = m
      BY <1>1, <1>4, AppendKeepsMails DEF Inv
    <1>6. /\ e \in [stage : Stages, friend : Friends, parent : Nat, letter : Nat]
          /\ e.stage = "store" /\ e.friend = writing[w].friend
          /\ e.parent = writing[w].parent /\ e.letter = n
      <2>1. n \in Nat
        BY <1>5
      <2>2. QED
        BY <1>3, <2>1 DEF Stages
    <1> HIDE DEF e
    <1>7. /\ writing' \in [Writers -> [stage : Stages, friend : Friends, parent : Nat,
                                       letter : Nat]]
          /\ writing'[w] = e
          /\ \A v \in Writers \ {w} : writing'[v] = writing[v]
      BY <1>2, <1>6 DEF Inv, TypeOK
    <1>8. HearsayHasLetter'
      BY <1>1, <1>4, AppendKeepsStates
    <1>9. TypeOK'
      <2>1. routine' \in [Friends -> Nat]
        <3>1. writing[w].friend \in Friends /\ day \in Nat /\ routine \in [Friends -> Nat]
          BY <1>3 DEF Inv, TypeOK
        <3>2. QED
          BY <1>1, <3>1
      <2>2. remembered' \subseteq Ids' /\ delivered' \in Nat
        BY <1>1, <1>5 DEF Inv, TypeOK
      <2>3. UNCHANGED <<state, sent, day, saved, launches>>
        BY <1>1 DEF process
      <2>4. QED
        BY <1>5, <1>7, <2>1, <2>2, <2>3 DEF Inv, TypeOK
    <1>10. Counting'
      <2>1. Busy' = Busy \cup {w} /\ Storing' = Storing \cup {w}
        BY <1>2, <1>6, OneWriterChanges DEF Inv
      <2>2. w \in Busy /\ w \notin Storing
        BY <1>1 DEF Busy, Storing
      <2>3. Busy' = Busy
        BY <2>1, <2>2
      <2>4. Cardinality(Storing') = Cardinality(Storing) + 1 /\ Cardinality(Storing) \in Nat
        BY <2>1, <2>2, SomeWriters DEF Storing
      <2>5. delivered \in Nat /\ sent \in Nat
        BY DEF Inv, TypeOK
      <2>6. QED
        BY <1>1, <2>3, <2>4, <2>5 DEF Inv, Counting
    <1>11. LettersDelivered'
      BY <1>4, <1>5, <1>6, <1>7 DEF Inv, LettersDelivered
    <1>12. RepliesUnanswered'
      <2>1. ASSUME NEW v \in Writers, writing'[v].stage = "ask", writing'[v].parent # 0
            PROVE  /\ writing'[v].parent \in Ids'
                   /\ mails'[writing'[v].parent].friend = writing'[v].friend
                   /\ mails'[writing'[v].parent].direction = "out"
                   /\ \A j \in Ids' : mails'[j].direction = "in"
                                        => mails'[j].parent # writing'[v].parent
                   /\ \A u \in Writers : /\ writing'[u].stage = "ask"
                                           /\ writing'[u].parent = writing'[v].parent
                                           => u = v
        <3>1. v # w /\ writing'[v] = writing[v]
          BY <1>6, <1>7, <2>1
        <3>2. /\ writing[v].parent \in Ids
              /\ mails[writing[v].parent].friend = writing[v].friend
              /\ mails[writing[v].parent].direction = "out"
              /\ \A j \in Ids : mails[j].direction = "in"
                                   => mails[j].parent # writing[v].parent
              /\ \A u \in Writers : writing[u].stage = "ask"
                                        /\ writing[u].parent = writing[v].parent => u = v
          BY <2>1, <3>1 DEF Inv, RepliesUnanswered
        <3>3. m.parent # writing[v].parent
          BY <1>1, <1>4, <3>1, <3>2
        <3>4. QED
          BY <1>5, <1>6, <1>7, <3>1, <3>2, <3>3
      <2>2. QED
        BY <2>1 DEF RepliesUnanswered
    <1>13. ThreadsAreWhole'
      <2>1. ASSUME m.parent # 0
            PROVE  /\ m.parent \in Ids /\ m.parent < n
                   /\ mails[m.parent].friend = m.friend
                   /\ mails[m.parent].direction = "out"
                   /\ \A j \in Ids : mails[j].direction = "in" => mails[j].parent # m.parent
        <3>1. m.parent \in Ids
          BY <1>1, <1>4, <2>1 DEF Inv, RepliesUnanswered
        <3>2. m.parent < n
          BY <1>5, <3>1 DEF Ids
        <3>3. QED
          BY <1>1, <1>4, <2>1, <3>1, <3>2 DEF Inv, RepliesUnanswered
      <2>2. ASSUME NEW i \in Ids, mails[i].parent # 0
            PROVE  mails[i].parent \in Ids
        <3>1. mails[i].parent \in Nat /\ mails[i].parent < i
          BY <2>2, RowTypes DEF Inv, ThreadsAreWhole
        <3>2. QED
          BY <1>5, <2>2, <3>1 DEF Ids
      <2>3. QED
        BY <1>4, <1>5, <2>1, <2>2 DEF Inv, ThreadsAreWhole
    <1>14. QED
      BY <1>8, <1>9, <1>10, <1>11, <1>12, <1>13 DEF Inv

\* A writer that becomes idle takes nothing with it.
LEMMA OneBecomesIdle ==
    ASSUME Inv, NEW w \in Writers, writing' = [writing EXCEPT ![w] = Idle],
           UNCHANGED mails
    PROVE  /\ writing' \in [Writers -> [stage : Stages, friend : Friends, parent : Nat,
                                        letter : Nat]]
           /\ LettersDelivered' /\ RepliesUnanswered' /\ ThreadsAreWhole'
           /\ Busy' = Busy \ {w} /\ Storing' = Storing \ {w}
    <1>1. /\ writing' \in [Writers -> [stage : Stages, friend : Friends, parent : Nat,
                                       letter : Nat]]
          /\ writing'[w] = Idle
          /\ \A v \in Writers \ {w} : writing'[v] = writing[v]
      BY IdleTypes DEF Inv, TypeOK
    <1>2. LettersDelivered'
      BY <1>1, IdleTypes DEF Inv, LettersDelivered, Ids
    <1>3. RepliesUnanswered'
      BY <1>1, IdleTypes DEF Inv, RepliesUnanswered, Ids
    <1>4. ThreadsAreWhole'
      BY DEF Inv, ThreadsAreWhole, Ids
    <1>5. Busy' = Busy \ {w} /\ Storing' = Storing \ {w}
      BY IdleTypes, OneWriterChanges DEF Inv
    <1>6. QED
      BY <1>1, <1>2, <1>3, <1>4, <1>5

LEMMA NoLetterStep ==
    ASSUME Inv, NEW w \in Writers, NoLetter(w)
    PROVE  Inv'
    <1>1. /\ writing[w].stage = "ask" /\ writing' = [writing EXCEPT ![w] = Idle]
          /\ UNCHANGED <<mails, state, remembered, sent, process, delivered, routine>>
      BY DEF NoLetter
    <1>2. /\ writing' \in [Writers -> [stage : Stages, friend : Friends, parent : Nat,
                                       letter : Nat]]
          /\ LettersDelivered' /\ RepliesUnanswered' /\ ThreadsAreWhole'
          /\ Busy' = Busy \ {w} /\ Storing' = Storing \ {w}
      BY <1>1, OneBecomesIdle
    <1>3. Counting'
      <2>1. Storing' = Storing
        BY <1>1, <1>2 DEF Storing
      <2>2. /\ Cardinality(Busy') <= Cardinality(Busy)
            /\ Cardinality(Busy') \in Nat /\ Cardinality(Busy) \in Nat
        BY <1>2, SomeWriters DEF Busy
      <2>3. sent \in Nat
        BY DEF Inv, TypeOK
      <2>4. QED
        BY <1>1, <2>1, <2>2, <2>3, WritersCount, CapAssumption DEF Inv, Counting
    <1>4. TypeOK'
      BY <1>1, <1>2 DEF Inv, TypeOK, Ids, process
    <1>5. HearsayHasLetter'
      BY <1>1 DEF Inv, HearsayHasLetter, Ids
    <1>6. QED
      BY <1>2, <1>3, <1>4, <1>5 DEF Inv

LEMMA StoreStep ==
    ASSUME Inv, NEW w \in Writers, Store(w)
    PROVE  Inv'
    <1>1. /\ writing[w].stage = "store" /\ writing' = [writing EXCEPT ![w] = Idle]
          /\ sent' = sent + 1
          /\ UNCHANGED <<mails, process, delivered, routine>>
          /\ remembered' = remembered \cup {writing[w].letter}
      BY DEF Store
    <1>2. state' = [state EXCEPT ![writing[w].friend] =
                       [letter |-> writing[w].letter, day |-> day]]
      BY DEF Store
    <1>3. /\ writing[w].letter \in Ids /\ writing[w].letter \in Nat
          /\ mails[writing[w].letter].friend = writing[w].friend
          /\ mails[writing[w].letter].direction = "in"
          /\ writing[w].friend \in Friends
      BY <1>1 DEF Inv, LettersDelivered, TypeOK
    <1>4. /\ writing' \in [Writers -> [stage : Stages, friend : Friends, parent : Nat,
                                       letter : Nat]]
          /\ LettersDelivered' /\ RepliesUnanswered' /\ ThreadsAreWhole'
          /\ Busy' = Busy \ {w} /\ Storing' = Storing \ {w}
      BY <1>1, OneBecomesIdle
    <1>5. Counting'
      <2>1. w \in Busy /\ w \in Storing
        BY <1>1 DEF Busy, Storing
      <2>2. /\ Cardinality(Busy') = Cardinality(Busy) - 1
            /\ Cardinality(Storing') = Cardinality(Storing) - 1
            /\ Cardinality(Busy) \in Nat /\ Cardinality(Storing) \in Nat
        BY <1>4, <2>1, SomeWriters DEF Busy, Storing
      <2>3. sent \in Nat /\ delivered \in Nat
        BY DEF Inv, TypeOK
      <2>4. QED
        BY <1>1, <2>2, <2>3 DEF Inv, Counting
    <1>6. TypeOK'
      <2>1. day \in Nat
        BY DEF Inv, TypeOK
      <2>2. state' \in [Friends -> [letter : Nat, day : Nat]]
        BY <1>2, <1>3, <2>1 DEF Inv, TypeOK
      <2>3. remembered' \subseteq Ids' /\ sent' \in Nat
        <3>1. Ids' = Ids
          BY <1>1 DEF Ids
        <3>2. remembered \subseteq Ids /\ sent \in Nat
          BY DEF Inv, TypeOK
        <3>3. QED
          BY <1>1, <1>3, <3>1, <3>2
      <2>4. UNCHANGED <<mails, delivered, routine, day, saved, launches>>
        BY <1>1 DEF process
      <2>5. QED
        BY <1>4, <2>2, <2>3, <2>4 DEF Inv, TypeOK
    <1>7. HearsayHasLetter'
      <2>1. ASSUME NEW f \in Friends, state'[f].letter # 0
            PROVE  /\ state'[f].letter \in Ids
                   /\ mails[state'[f].letter].friend = f
                   /\ mails[state'[f].letter].direction = "in"
                   /\ state'[f].letter \in remembered'
        <3>1. CASE f = writing[w].friend
          BY <1>1, <1>2, <1>3, <3>1 DEF Inv, TypeOK
        <3>2. CASE f # writing[w].friend
          <4>1. state'[f] = state[f]
            BY <1>2, <3>2 DEF Inv, TypeOK
          <4>2. QED
            BY <1>1, <2>1, <4>1 DEF Inv, HearsayHasLetter
        <3>3. QED
          BY <3>1, <3>2
      <2>2. QED
        BY <1>1, <2>1 DEF HearsayHasLetter, Ids
    <1>8. QED
      BY <1>4, <1>5, <1>6, <1>7 DEF Inv

\* A restart leaves no writer and no count.
LEMMA RestartStep ==
    ASSUME Inv, Stop \/ Crash \/ \E w \in Writers : CrashWhileStoring(w)
    PROVE  Inv'
    <1>1. /\ sent' = 0 /\ delivered' = 0 /\ UNCHANGED <<mails, state>>
          /\ writing' = [w \in Writers |-> Idle]
          /\ routine' = [f \in Friends |-> 0]
          /\ launches' \in Nat /\ day' \in Nat /\ saved' \in Nat
      BY DEF Inv, TypeOK, Stop, Crash, CrashWhileStoring, Restart
    <1>2. remembered \subseteq remembered' /\ remembered' \subseteq Ids
      <2>1. CASE Stop \/ Crash
        BY <2>1 DEF Inv, TypeOK, Stop, Crash
      <2>2. ASSUME NEW w \in Writers, CrashWhileStoring(w)
            PROVE  remembered \subseteq remembered' /\ remembered' \subseteq Ids
        BY <2>2 DEF Inv, TypeOK, LettersDelivered, CrashWhileStoring
      <2>3. QED
        BY <2>1, <2>2
    <1>3. TypeOK'
      BY <1>1, <1>2, IdleTypes DEF Inv, TypeOK, Ids
    <1>4. Busy' = {} /\ Storing' = {}
      BY <1>1, IdleTypes DEF Busy, Storing
    <1>5. Counting'
      BY <1>1, <1>4, FS_EmptySet, WritersCount, CapAssumption DEF Counting
    <1>6. LettersDelivered' /\ RepliesUnanswered'
      BY <1>1, IdleTypes DEF LettersDelivered, RepliesUnanswered
    <1>7. HearsayHasLetter' /\ ThreadsAreWhole'
      BY <1>1, <1>2 DEF Inv, HearsayHasLetter, ThreadsAreWhole, Ids
    <1>8. QED
      BY <1>3, <1>5, <1>6, <1>7 DEF Inv

LEMMA NextInv == Inv /\ [Next]_vars => Inv'
    <1> SUFFICES ASSUME Inv, [Next]_vars PROVE Inv'
      OBVIOUS
    <1>1. ASSUME NEW f \in Friends,
                 CadenceCheck(f) \/ \E w \in Callers : NotifyEvent(w, f)
          PROVE  Inv'
      <2>1. "cadence" \in Writers /\ Callers \subseteq Writers
        BY DEF Writers
      <2>2. CASE CadenceCheck(f)
        BY <2>1, <2>2, TriggerStep DEF CadenceCheck
      <2>3. ASSUME NEW w \in Callers, NotifyEvent(w, f)
            PROVE  Inv'
        <3>1. w \in Writers
          BY <2>1
        <3>2. QED
          BY <3>1, <2>3, TriggerStep DEF NotifyEvent
      <2>4. QED
        BY <1>1, <2>2, <2>3
    <1>2. CASE \E id \in Ids : \E w \in Callers : Reply(w, id)
      BY <1>2, ReplyStep
    <1>3. ASSUME NEW w \in Writers,
                 Deliver(w) \/ NoLetter(w) \/ Store(w) \/ CrashWhileStoring(w)
          PROVE  Inv'
      BY <1>3, DeliverStep, NoLetterStep, StoreStep, RestartStep
    <1>4. CASE Stop \/ Crash
      BY <1>4, RestartStep
    <1>5. CASE NewDay \/ UNCHANGED vars
      <2>1. UNCHANGED <<mails, state, remembered, sent, writing, delivered, routine>>
        BY <1>5 DEF NewDay, vars
      <2>2. day' \in Nat /\ saved' \in Nat /\ launches' \in Nat
        BY <1>5 DEF NewDay, vars, Inv, TypeOK
      <2>3. TypeOK'
        BY <2>1, <2>2 DEF Inv, TypeOK, Ids
      <2>4. Counting'
        BY <2>1 DEF Inv, Counting, Busy, Storing
      <2>5. LettersDelivered' /\ RepliesUnanswered' /\ HearsayHasLetter' /\ ThreadsAreWhole'
        BY <2>1 DEF Inv, LettersDelivered, RepliesUnanswered, HearsayHasLetter,
                    ThreadsAreWhole, Ids
      <2>6. QED
        BY <2>3, <2>4, <2>5 DEF Inv
    <1>6. QED
      BY <1>1, <1>2, <1>3, <1>4, <1>5 DEF Next

LEMMA SpecInv == Spec => []Inv
    <1>1. QED
      BY InitInv, NextInv, PTL DEF Spec

-----------------------------------------------------------------------------
(* The cadence.                                                            *)

\* The day a friend is measured by is not before its last routine letter, but
\* while the loop has yet to store that letter; a routine letter that is being
\* written is due.
LastRoutine ==
    /\ \A f \in Friends : routine[f] <= day
    /\ \A f \in Friends :
          routine[f] # 0 /\ ~(writing["cadence"].stage = "store"
                                /\ writing["cadence"].friend = f)
              => routine[f] <= state[f].day
    /\ writing["cadence"].stage = "ask" /\ routine[writing["cadence"].friend] # 0
          => day - routine[writing["cadence"].friend] >= CadenceDays

LEMMA CadenceTypes ==
    ASSUME TypeOK
    PROVE  /\ "cadence" \in Writers
           /\ writing["cadence"].friend \in Friends
           /\ day \in Nat
           /\ \A f \in Friends : routine[f] \in Nat /\ state[f].day \in Nat
           /\ CadenceDays \in Nat
    BY CapAssumption DEF TypeOK, Writers

\* What the other writers do, and the passing of days, leave the loop alone.
LEMMA LoopRests ==
    ASSUME TypeOK, TypeOK', LastRoutine,
           writing'["cadence"] = writing["cadence"], routine' = routine, day' >= day,
           \A f \in Friends : state'[f].day = state[f].day \/ state'[f].day = day
    PROVE  LastRoutine'
    <1>1. day \in Nat /\ day' \in Nat
      BY DEF TypeOK
    <1>2. \A f \in Friends : routine[f] <= day'
      BY <1>1, CadenceTypes DEF LastRoutine
    <1>3. ASSUME NEW f \in Friends, routine[f] # 0,
                 ~(writing["cadence"].stage = "store" /\ writing["cadence"].friend = f)
          PROVE  routine[f] <= state'[f].day
      <2>1. routine[f] <= state[f].day /\ routine[f] <= day
        BY <1>3 DEF LastRoutine
      <2>2. QED
        BY <2>1
    <1>4. ASSUME writing["cadence"].stage = "ask", routine[writing["cadence"].friend] # 0
          PROVE  day' - routine[writing["cadence"].friend] >= CadenceDays
      <2>1. day - routine[writing["cadence"].friend] >= CadenceDays
        BY <1>4 DEF LastRoutine
      <2>2. QED
        BY <1>1, <2>1, CadenceTypes
    <1>5. QED
      BY <1>2, <1>3, <1>4 DEF LastRoutine

\* The loop goes from a check to the letter, and from the letter to its state.
LEMMA LoopSteps ==
    ASSUME Inv, TypeOK', LastRoutine,
           \/ \E f \in Friends : CadenceCheck(f)
           \/ Deliver("cadence") \/ NoLetter("cadence") \/ Store("cadence")
    PROVE  LastRoutine'
    <1> USE DEF Inv
    <1> DEFINE g == writing["cadence"].friend
    <1>1. ASSUME NEW f \in Friends, CadenceCheck(f)
          PROVE  LastRoutine'
      <2>1. /\ writing["cadence"].stage = "idle" /\ day - state[f].day >= CadenceDays
            /\ UNCHANGED <<state, day, routine>>
        BY <1>1 DEF CadenceCheck, process
      <2>2. writing'["cadence"].stage = "ask" /\ writing'["cadence"].friend = f
        BY <1>1, IdleTypes, CadenceTypes DEF CadenceCheck, Ask, TypeOK
      <2>3. routine[f] # 0 => routine[f] <= state[f].day
        BY <2>1 DEF LastRoutine
      <2>4. routine[f] # 0 => day - routine[f] >= CadenceDays
        BY <2>1, <2>3, CadenceTypes
      <2>5. QED
        BY <2>1, <2>2, <2>4 DEF LastRoutine
    <1>2. CASE Deliver("cadence")
      <2>1. /\ writing["cadence"].stage = "ask" /\ UNCHANGED <<state, day>>
            /\ routine' = [routine EXCEPT ![g] = day]
        BY <1>2 DEF Deliver, process
      <2>2. writing'["cadence"].stage = "store" /\ writing'["cadence"].friend = g
        BY <1>2, CadenceTypes DEF Deliver, TypeOK
      <2>3. routine'[g] = day /\ \A f \in Friends : f # g => routine'[f] = routine[f]
        BY <2>1, CadenceTypes DEF TypeOK
      <2>4. QED
        BY <2>1, <2>2, <2>3, CadenceTypes DEF LastRoutine
    <1>3. CASE NoLetter("cadence")
      <2>1. /\ writing["cadence"].stage = "ask" /\ UNCHANGED <<state, day, routine>>
        BY <1>3 DEF NoLetter, process
      <2>2. writing'["cadence"].stage = "idle"
        BY <1>3, IdleTypes, CadenceTypes DEF NoLetter, TypeOK
      <2>3. QED
        BY <2>1, <2>2 DEF LastRoutine
    <1>4. CASE Store("cadence")
      <2>1. UNCHANGED <<day, routine>>
        BY <1>4 DEF Store, process
      <2>2. writing'["cadence"].stage = "idle"
        BY <1>4, IdleTypes, CadenceTypes DEF Store, TypeOK
      <2>3. state'[g].day = day /\ \A f \in Friends : f # g => state'[f] = state[f]
        BY <1>4, CadenceTypes DEF Store, TypeOK
      <2>4. QED
        BY <2>1, <2>2, <2>3, CadenceTypes DEF LastRoutine
    <1>5. QED
      BY <1>1, <1>2, <1>3, <1>4

LEMMA LastRoutineStep == Inv /\ LastRoutine /\ [Next]_vars => LastRoutine'
    <1> SUFFICES ASSUME Inv, LastRoutine, [Next]_vars
                 PROVE  LastRoutine'
      OBVIOUS
    <1>1. TypeOK /\ TypeOK'
      BY NextInv DEF Inv
    <1>2. "cadence" \notin Callers /\ Callers \subseteq Writers
      BY CallersAssumption DEF Writers
    <1>3. ASSUME NEW w \in Callers, NEW e, writing' = [writing EXCEPT ![w] = e],
                 UNCHANGED <<day, routine>>,
                 \A f \in Friends : state'[f].day = state[f].day \/ state'[f].day = day
          PROVE  LastRoutine'
      <2>1. writing'["cadence"] = writing["cadence"]
        BY <1>1, <1>2, <1>3, CadenceTypes DEF TypeOK
      <2>2. QED
        BY <1>1, <1>3, <2>1, CadenceTypes, LoopRests
    <1>4. ASSUME UNCHANGED <<state, writing, routine>>, day' >= day
          PROVE  LastRoutine'
      BY <1>1, <1>4, LoopRests
    <1>5. ASSUME NEW f \in Friends, NEW w \in Callers, NotifyEvent(w, f)
          PROVE  LastRoutine'
      BY <1>3, <1>5 DEF NotifyEvent, Ask, process
    <1>6. ASSUME NEW id \in Ids, NEW w \in Callers, Reply(w, id)
          PROVE  LastRoutine'
      <2>1. UNCHANGED <<state, day, routine>>
        BY <1>6 DEF Reply, process
      <2>2. CASE sent < Cap
        BY <1>3, <1>6, <2>1, <2>2 DEF Reply, Ask
      <2>3. CASE ~(sent < Cap)
        BY <1>1, <1>4, <1>6, <2>1, <2>3, CadenceTypes DEF Reply
      <2>4. QED
        BY <2>2, <2>3
    <1>7. ASSUME NEW w \in Callers, Deliver(w)
          PROVE  LastRoutine'
      <2>1. w # "cadence"
        BY <1>2
      <2>2. routine' = routine /\ UNCHANGED <<state, day>>
        BY <1>7, <2>1 DEF Deliver, process
      <2>3. writing'["cadence"] = writing["cadence"]
        BY <1>1, <1>7, <2>1, CadenceTypes DEF Deliver, TypeOK
      <2>4. QED
        BY <1>1, <2>2, <2>3, CadenceTypes, LoopRests
    <1>8. ASSUME NEW w \in Callers, NoLetter(w)
          PROVE  LastRoutine'
      BY <1>3, <1>8 DEF NoLetter, process
    <1>9. ASSUME NEW w \in Callers, Store(w)
          PROVE  LastRoutine'
      <2>1. UNCHANGED <<day, routine>> /\ writing' = [writing EXCEPT ![w] = Idle]
        BY <1>9 DEF Store, process
      <2>2. \A f \in Friends : state'[f].day = state[f].day \/ state'[f].day = day
        BY <1>1, <1>9 DEF Store, TypeOK
      <2>3. QED
        BY <1>3, <2>1, <2>2
    <1>10. ASSUME Restart
           PROVE  LastRoutine'
      <2>1. routine' = [f \in Friends |-> 0] /\ writing'["cadence"] = Idle
        BY <1>10, CadenceTypes, <1>1 DEF Restart
      <2>2. day' \in Nat
        BY <1>1 DEF TypeOK
      <2>3. QED
        BY <2>1, <2>2, IdleTypes DEF LastRoutine
    <1>11. CASE NewDay \/ UNCHANGED vars
      BY <1>1, <1>4, <1>11, CadenceTypes DEF NewDay, vars
    <1>12. \A w \in Writers : w = "cadence" \/ w \in Callers
      BY DEF Writers
    <1>13. ASSUME NEW w \in Writers, Deliver(w) \/ NoLetter(w) \/ Store(w)
           PROVE  LastRoutine'
      <2>1. CASE w = "cadence"
        BY <1>1, <1>13, <2>1, LoopSteps
      <2>2. CASE w \in Callers
        BY <1>7, <1>8, <1>9, <1>13, <2>2
      <2>3. QED
        BY <1>12, <2>1, <2>2
    <1>14. CASE \E f \in Friends : CadenceCheck(f)
      BY <1>1, <1>14, LoopSteps
    <1>15. CASE Stop \/ Crash \/ \E w \in Writers : CrashWhileStoring(w)
      BY <1>10, <1>15 DEF Stop, Crash, CrashWhileStoring
    <1>16. QED
      BY <1>5, <1>6, <1>11, <1>13, <1>14, <1>15 DEF Next

-----------------------------------------------------------------------------
(* Theorems.                                                               *)

\* The table, the states, the callers and the counters keep their types.
THEOREM TypeCorrect == Spec => []TypeOK
    <1>1. Inv => TypeOK
      BY DEF Inv
    <1>2. QED
      BY <1>1, SpecInv, PTL

\* A session goes over the cap by no more than what overlaps, for any cap and
\* any number of callers.
THEOREM OvershootIsBounded == Spec => []CapOvershootBounded
    <1>1. Inv => CapOvershootBounded
      <2> SUFFICES ASSUME Inv PROVE CapOvershootBounded
        OBVIOUS
      <2>1. Storing \subseteq Busy /\ Busy \subseteq Writers
        BY DEF Storing, Busy
      <2>2. /\ Cardinality(Storing) <= Cardinality(Busy)
            /\ Cardinality(Storing) \in Nat /\ Cardinality(Busy) \in Nat
        BY <2>1, SomeWriters
      <2>3. sent \in Nat
        BY DEF Inv, TypeOK
      <2>4. QED
        BY <2>2, <2>3, WritersCount, CapAssumption DEF Inv, Counting, CapOvershootBounded
    <1>2. QED
      BY <1>1, SpecInv, PTL

\* Hearsay always has its letter, in the mailbox and in the friend's memory.
THEOREM HearsayIsGrounded == Spec => []HearsayHasLetter
    <1>1. Inv => HearsayHasLetter
      BY DEF Inv
    <1>2. QED
      BY <1>1, SpecInv, PTL

\* Threads stay whole, whoever writes at the same time.
THEOREM ThreadsStayWhole == Spec => []ThreadsAreWhole
    <1>1. Inv => ThreadsAreWhole
      BY DEF Inv
    <1>2. QED
      BY <1>1, SpecInv, PTL

\* Within a launch two routine letters of one friend are the cadence apart: while
\* the state it is measured by is behind, the loop itself is busy.
THEOREM CadenceIsKept == Spec => CadenceKept
    <1>1. Init => LastRoutine
      BY IdleTypes, CadenceTypes, InitInv DEF Inv, Init, LastRoutine
    <1>2. Spec => []LastRoutine
      BY <1>1, SpecInv, LastRoutineStep, PTL DEF Spec
    <1>3. ASSUME Inv, LastRoutine
          PROVE  [\A f \in Friends :
                    Deliver("cadence") /\ writing["cadence"].friend = f /\ routine[f] # 0
                       => day - routine[f] >= CadenceDays]_vars
      BY <1>3 DEF LastRoutine, Deliver
    <1>4. QED
      BY <1>2, <1>3, SpecInv, PTL DEF Spec, CadenceKept
=============================================================================
