------------------------- MODULE Onboarding_proofs -------------------------
(***************************************************************************)
(* Theorems about Onboarding, for any requests, locales and launches and   *)
(* any number of seed memories.                                            *)
(***************************************************************************)
EXTENDS Onboarding, TLAPS

\* A request past its check follows the other steps, and has written every
\* seed before the one it embeds.
Followed ==
    \A r \in Requests : at[r] # 0 =>
        /\ {"locale", "keeper_name", "mate_name"} \subseteq store
        /\ \A n \in Seeds : n < at[r] => rows[n] >= 1

Inv == TypeOK /\ Followed /\ DoneIsComplete

LEMMA Initially ==
    ASSUME NumSeeds \in Nat, Init
    PROVE  Inv
    <1>1. 0 \in 0 .. NumSeeds /\ 0 \in Nat /\ 1 \in Nat
      OBVIOUS
    <1>2. rows \in [Seeds -> Nat] /\ at \in [Requests -> 0 .. NumSeeds]
      BY <1>1 DEF Init
    <1>3. store = {} /\ \A r \in Requests : at[r] = 0
      BY DEF Init
    <1>4. TypeOK
      BY <1>1, <1>2, <1>3 DEF Init, TypeOK
    <1>5. QED
      BY <1>3, <1>4 DEF Inv, Followed, DoneIsComplete

\* An insert makes no count smaller.
LEMMA InsertAdds ==
    ASSUME NumSeeds \in Nat, TypeOK, NEW r \in Requests, at[r] # 0, Insert(r)
    PROVE  /\ rows' \in [Seeds -> Nat]
           /\ \A n \in Seeds : rows[n] >= 1 => rows'[n] >= 1
           /\ at[r] \in Seeds /\ rows'[at[r]] >= 1
    BY DEF TypeOK, Seeds, Insert

LEMMA NameMateStep ==
    ASSUME NumSeeds \in Nat, Inv, NEW r \in Requests, NameMate(r)
    PROVE  Inv'
    <1>1. {"locale", "keeper_name"} \subseteq store /\ "done" \notin store /\ key
      BY DEF NameMate, OnboardingStep
    <1>2. {"locale", "keeper_name", "mate_name"} \subseteq store'
          /\ ("done" \in store' => NumSeeds = 0) /\ store' \subseteq Keys
      BY <1>1 DEF NameMate, Inv, TypeOK, Keys
    <1>3. TypeOK'
      BY <1>2 DEF NameMate, Inv, TypeOK, process
    <1>4. Followed'
      BY <1>2 DEF NameMate, Inv, TypeOK, Followed, Seeds
    <1>5. DoneIsComplete'
      <2>1. "done" \in store' => store' = Keys
        BY <1>2 DEF Keys
      <2>2. "done" \in store' => Seeds = {}
        BY <1>2 DEF Seeds
      <2>3. QED
        BY <2>1, <2>2 DEF DoneIsComplete
    <1>6. QED
      BY <1>3, <1>4, <1>5 DEF Inv

LEMMA WriteSeedStep ==
    ASSUME NumSeeds \in Nat, Inv, NEW r \in Requests, WriteSeed(r)
    PROVE  Inv'
    <1>1. /\ rows' \in [Seeds -> Nat]
          /\ \A n \in Seeds : rows[n] >= 1 => rows'[n] >= 1
          /\ at[r] \in Seeds /\ rows'[at[r]] >= 1
      BY InsertAdds DEF WriteSeed, Inv
    <1>2. {"locale", "keeper_name", "mate_name"} \subseteq store
          /\ \A n \in Seeds : n < at[r] => rows[n] >= 1
      BY DEF WriteSeed, Inv, Followed
    <1>3. /\ store' = store \cup (IF at[r] = NumSeeds THEN {"done"} ELSE {})
          /\ at' = [at EXCEPT ![r] = IF @ = NumSeeds THEN 0 ELSE @ + 1]
      BY DEF WriteSeed
    <1>4. TypeOK'
      BY <1>1, <1>3 DEF WriteSeed, Inv, TypeOK, process, Seeds, Keys
    <1>5. Followed'
      <2>1. ASSUME NEW q \in Requests, at'[q] # 0, NEW n \in Seeds, n < at'[q]
            PROVE  rows'[n] >= 1
        <3>1. CASE q = r
          <4>1. n < at[r] \/ n = at[r]
            BY <1>1, <1>3, <2>1, <3>1 DEF Inv, TypeOK, Seeds
          <4>2. QED
            BY <1>1, <1>2, <4>1
        <3>2. CASE q # r
          BY <1>1, <1>3, <2>1, <3>2 DEF Inv, TypeOK, Followed
        <3>3. QED
          BY <3>1, <3>2
      <2>2. {"locale", "keeper_name", "mate_name"} \subseteq store'
        BY <1>2, <1>3
      <2>3. QED
        BY <2>1, <2>2 DEF Followed
    <1>6. DoneIsComplete'
      <2>1. CASE at[r] = NumSeeds
        <3>1. \A n \in Seeds : n < at[r] \/ n = at[r]
          BY <2>1 DEF Seeds
        <3>2. \A n \in Seeds : rows'[n] >= 1
          BY <1>1, <1>2, <3>1
        <3>3. store' = Keys
          BY <1>2, <1>3, <2>1 DEF Inv, TypeOK, Keys
        <3>4. QED
          BY <3>2, <3>3 DEF DoneIsComplete
      <2>2. CASE at[r] # NumSeeds
        BY <1>1, <1>3, <2>2 DEF Inv, DoneIsComplete
      <2>3. QED
        BY <2>1, <2>2
    <1>7. QED
      BY <1>4, <1>5, <1>6 DEF Inv

LEMMA RelaunchStep ==
    ASSUME NumSeeds \in Nat, Inv, Relaunch, store' = store, rows' \in [Seeds -> Nat],
           \A n \in Seeds : rows[n] >= 1 => rows'[n] >= 1
    PROVE  Inv'
    <1>1. 0 \in 0 .. NumSeeds /\ launches' \in Nat
      BY DEF Relaunch, Inv, TypeOK
    <1>2. at' \in [Requests -> 0 .. NumSeeds] /\ \A r \in Requests : at'[r] = 0
      BY <1>1 DEF Relaunch
    <1>3. TypeOK'
      BY <1>1, <1>2 DEF Relaunch, Inv, TypeOK
    <1>4. Followed' /\ DoneIsComplete'
      BY <1>2 DEF Inv, Followed, DoneIsComplete
    <1>5. QED
      BY <1>3, <1>4 DEF Inv

LEMMA Inductive ==
    ASSUME NumSeeds \in Nat, Inv, [Next]_vars
    PROVE  Inv'
    <1>1. ASSUME NEW locale \in Locales, SetLocale(locale)
          PROVE  Inv'
      BY <1>1 DEF SetLocale, process, Inv, TypeOK, Followed, DoneIsComplete, Keys
    <1>2. CASE SetKeeperName
      BY <1>2 DEF SetKeeperName, process, Inv, TypeOK, Followed, DoneIsComplete, Keys
    <1>3. ASSUME NEW r \in Requests, CrashBeforeDone(r)
          PROVE  Inv'
      <2>1. rows' \in [Seeds -> Nat] /\ \A n \in Seeds : rows[n] >= 1 => rows'[n] >= 1
        BY <1>3, InsertAdds DEF CrashBeforeDone, Inv
      <2>2. QED
        BY <1>3, <2>1, RelaunchStep DEF CrashBeforeDone
    <1>4. CASE Restart
      BY <1>4, RelaunchStep DEF Restart, Inv, TypeOK
    <1>5. CASE UNCHANGED vars
      BY <1>5 DEF vars, Inv, TypeOK, Followed, DoneIsComplete
    <1>6. QED
      BY <1>1, <1>2, <1>3, <1>4, <1>5, NameMateStep, WriteSeedStep DEF Next

\* Whatever requests overlap and whatever crashes cut off, the onboarding is done
\* only after every step, and with every seed memory in the table
\* (_onboarding_step, _write_seed_memories_once).
THEOREM DoneMeansSeeded == ASSUME NumSeeds \in Nat PROVE Spec => []DoneIsComplete
    <1>1. Init => Inv
      BY Initially
    <1>2. Inv /\ [Next]_vars => Inv'
      BY Inductive
    <1>3. Inv => DoneIsComplete
      BY DEF Inv
    <1>4. QED
      BY <1>1, <1>2, <1>3, PTL DEF Spec
=============================================================================
