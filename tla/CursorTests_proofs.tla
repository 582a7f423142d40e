------------------------- MODULE CursorTests_proofs -------------------------
(***************************************************************************)
(* Proofs about the cursor-test tooling, for every posn_pairs list, every  *)
(* cursor context function and either failure mode of fs::write.          *)
(*                                                                         *)
(* NoSilentPass and BaselineIsFullOutput are not inductive as they stand:  *)
(* a step of the generator rewrites a test file, and that would break the  *)
(* relation between a baseline (or an "ok" verdict) and the test it was   *)
(* produced from.  CIInv adds what rules this out: while the generator's   *)
(* loop still has an entry to write, no baseline exists and no test has    *)
(* run, because cursor_testsuite runs on the batch the generator wrote.    *)
(***************************************************************************)
EXTENDS CursorTests, TLAPS

(* The length of posn_pairs is a natural number. *)
LEMMA LenPosnPairs == Len(PosnPairs) \in Nat
BY CursorAssumption

(* CIInv holds initially. *)
LEMMA CIInvInit == CInit => CIInv
BY LenPosnPairs DEF CInit, CIInv, CTypeOK, Outcomes, BaselineIsFullOutput, NoSilentPass

(* A step of the generator keeps CIInv: it runs only while no baseline    *)
(* exists and no test has run, and it touches neither.                     *)
LEMMA CIInvGenerate == CIInv /\ GenerateOne => CIInv'
<1> SUFFICES ASSUME CIInv, GenerateOne PROVE CIInv'
    OBVIOUS
<1>1. /\ gen <= Len(PosnPairs)
      /\ gen' = gen + 1
      /\ UNCHANGED <<baseline, outcome>>
      /\ DOMAIN tests' = FileNames
    BY DEF GenerateOne, CIInv
<1>2. \A f \in FileNames : baseline[f] = NoFile /\ outcome[f] = "not_run"
    BY <1>1 DEF CIInv
<1>3. gen' \in 1..(Len(PosnPairs) + 1)
    BY <1>1, LenPosnPairs DEF CIInv, CTypeOK
<1>4. CTypeOK'
    BY <1>1, <1>2, <1>3 DEF CTypeOK, Outcomes
<1>5. BaselineIsFullOutput' /\ NoSilentPass'
    BY <1>1, <1>2 DEF BaselineIsFullOutput, NoSilentPass
<1>6. (gen' <= Len(PosnPairs) =>
          \A f \in FileNames : baseline'[f] = NoFile /\ outcome'[f] = "not_run")
    BY <1>1, <1>2
<1> QED
    BY <1>1, <1>4, <1>5, <1>6 DEF CIInv

(* A run of one test keeps CIInv: the test files no longer change, a       *)
(* baseline is written only as the full output of its own test, and a      *)
(* test passes only when its baseline equals that output.                  *)
LEMMA CIInvRunTest ==
    ASSUME CIInv, NEW f \in FileNames, NEW update \in BOOLEAN, RunTest(f, update)
    PROVE  CIInv'
<1> DEFINE t == tests[f]
           out == TestOutput(t)
<1>1. /\ gen > Len(PosnPairs)
      /\ UNCHANGED <<gen, tests>>
    BY DEF RunTest
<1>5. CASE t = PartialFile
    <2>1. outcome' = [outcome EXCEPT ![f] = "bad_test"] /\ UNCHANGED baseline
        BY <1>5 DEF RunTest
    <2> QED
        BY <1>1, <2>1 DEF CIInv, CTypeOK, Outcomes, BaselineIsFullOutput, NoSilentPass
<1>2. CASE t # PartialFile /\ ContextAt(t.line, t.character) = NoContext
    <2>1. outcome' = [outcome EXCEPT ![f] = "panic"] /\ UNCHANGED baseline
        BY <1>2 DEF RunTest
    <2> QED
        BY <1>1, <2>1 DEF CIInv, CTypeOK, Outcomes, BaselineIsFullOutput, NoSilentPass
<1>3. CASE t # PartialFile /\ ContextAt(t.line, t.character) # NoContext /\ update
    <2>1. /\ baseline' = [baseline EXCEPT ![f] = out]
          /\ outcome' = [outcome EXCEPT ![f] = "updated"]
        BY <1>3 DEF RunTest
    <2> QED
        BY <1>1, <2>1 DEF CIInv, CTypeOK, Outcomes, BaselineIsFullOutput, NoSilentPass
<1>4. CASE t # PartialFile /\ ContextAt(t.line, t.character) # NoContext /\ ~update
    <2>1. /\ outcome' = [outcome EXCEPT ![f] =
                 IF baseline[f] = NoFile THEN "no_baseline"
                 ELSE IF baseline[f] = out THEN "ok" ELSE "differ"]
          /\ UNCHANGED baseline
        BY <1>4 DEF RunTest
    <2> QED
        BY <1>1, <2>1 DEF CIInv, CTypeOK, Outcomes, BaselineIsFullOutput, NoSilentPass
<1> QED
    BY <1>2, <1>3, <1>4, <1>5

(* Every step of the tooling, and every stutter, keeps CIInv. *)
LEMMA CIInvNext == CIInv /\ [CNext]_cvars => CIInv'
<1> SUFFICES ASSUME CIInv, [CNext]_cvars PROVE CIInv'
    OBVIOUS
<1>1. CASE GenerateOne
    BY <1>1, CIInvGenerate
<1>2. CASE \E f \in FileNames, update \in BOOLEAN : RunTest(f, update)
    BY <1>2, CIInvRunTest
<1>3. CASE UNCHANGED cvars
    BY <1>3 DEF CIInv, CTypeOK, BaselineIsFullOutput, NoSilentPass, cvars
<1> QED
    BY <1>1, <1>2, <1>3 DEF CNext

(* CIInv holds in every reachable state. *)
THEOREM CIInvHolds == CSpec => []CIInv
BY CIInvInit, CIInvNext, PTL DEF CSpec

(* Type correctness of the generator's cursor and of the verdicts. *)
THEOREM CTypeCorrect == CSpec => []CTypeOK
BY CIInvHolds, PTL DEF CIInv

(* For every posn_pairs list, every cursor context and whether or not the  *)
(* generator's writes may fail: a compare run of cursor_testsuite reports  *)
(* success only against an existing baseline equal to the test's current  *)
(* output.                                                                 *)
THEOREM NoSilentPassHolds == CSpec => []NoSilentPass
BY CIInvHolds, PTL DEF CIInv

(* For every posn_pairs list and every cursor context: every .exp file     *)
(* holds the complete output of its own test, whatever tests panicked.     *)
THEOREM BaselineIsFullOutputHolds == CSpec => []BaselineIsFullOutput
BY CIInvHolds, PTL DEF CIInv
-----------------------------------------------------------------------------
(* LastWriteWins is inductive together with CIInv, of which it needs the  *)
(* generator's cursor range and the domain of the test files.             *)
LWInv == CIInv /\ LastWriteWins

(* Every entry of posn_pairs names one of the test files. *)
LEMMA FileOfEntry ==
    ASSUME NEW i \in 1..Len(PosnPairs)
    PROVE  FileOf(PosnPairs[i]) \in FileNames
BY CursorAssumption DEF FileOf, FileNames

(* LWInv holds initially: no entry is processed and no file exists. *)
LEMMA LWInvInit == CInit => LWInv
BY CIInvInit, CursorAssumption DEF CInit, LWInv, LastWriteWins

(* The clauses of LastWriteWins for one file f. *)
LWPartial(f) ==
    tests[f] = PartialFile =>
        WriteMayFail /\ \E i \in 1..(gen - 1) : FileOf(PosnPairs[i]) = f
LWHeld(f) ==
    tests[f] \notin {NoFile, PartialFile} =>
        \E i \in 1..(gen - 1) :
            /\ FileOf(PosnPairs[i]) = f
            /\ tests[f] = TestOf(PosnPairs[i])
            /\ ~WriteMayFail =>
                  \A j \in (i + 1)..(gen - 1) : FileOf(PosnPairs[j]) # f
LWPresent(f) ==
    ~WriteMayFail /\ (\E i \in 1..(gen - 1) : FileOf(PosnPairs[i]) = f)
        => tests[f] # NoFile

(* LastWriteWins is the three clauses for every file. *)
LEMMA LWClauses == LastWriteWins <=> \A f \in FileNames : LWPartial(f) /\ LWHeld(f) /\ LWPresent(f)
BY DEF LastWriteWins, LWPartial, LWHeld, LWPresent

(* One step of the generator's loop, at entry gen, that leaves every file  *)
(* other than the one entry gen names as it was.                           *)
LEMMA LWOtherFile ==
    ASSUME LWInv, gen <= Len(PosnPairs), gen' = gen + 1,
           NEW f \in FileNames, f # FileOf(PosnPairs[gen]), tests'[f] = tests[f]
    PROVE  LWPartial(f)' /\ LWHeld(f)' /\ LWPresent(f)'
<1>1. gen \in 1..Len(PosnPairs) /\ Len(PosnPairs) \in Nat
    BY LenPosnPairs DEF LWInv, CIInv, CTypeOK
<1>2. LWPartial(f) /\ LWHeld(f) /\ LWPresent(f)
    BY LWClauses DEF LWInv
<1>3. 1..(gen' - 1) = (1..(gen - 1)) \cup {gen}
    BY <1>1
<1>4. LWPartial(f)'
    BY <1>2, <1>3 DEF LWPartial
<1>5. LWHeld(f)'
    <2> SUFFICES ASSUME tests[f] \notin {NoFile, PartialFile}
                 PROVE  LWHeld(f)'
        BY DEF LWHeld
    <2>1. PICK i \in 1..(gen - 1) :
              /\ FileOf(PosnPairs[i]) = f
              /\ tests[f] = TestOf(PosnPairs[i])
              /\ ~WriteMayFail =>
                    \A j \in (i + 1)..(gen - 1) : FileOf(PosnPairs[j]) # f
        BY <1>2 DEF LWHeld
    <2>2. (i + 1)..(gen' - 1) = ((i + 1)..(gen - 1)) \cup {gen}
        BY <1>1
    <2> QED BY <2>1, <2>2, <1>3 DEF LWHeld
<1>6. LWPresent(f)'
    BY <1>2, <1>3 DEF LWPresent
<1> QED BY <1>4, <1>5, <1>6

(* A successful write of the entry at gen: its file now holds that entry, *)
(* the last one processed, and every other file is untouched.              *)
LEMMA LWInvWrite ==
    ASSUME LWInv, gen <= Len(PosnPairs),
           tests' = [tests EXCEPT ![FileOf(PosnPairs[gen])] = TestOf(PosnPairs[gen])],
           gen' = gen + 1
    PROVE  LastWriteWins'
<1> DEFINE g == FileOf(PosnPairs[gen])
<1>1. gen \in 1..Len(PosnPairs) /\ Len(PosnPairs) \in Nat
    BY LenPosnPairs DEF LWInv, CIInv, CTypeOK
<1>2. g \in FileNames /\ TestOf(PosnPairs[gen]) \notin {NoFile, PartialFile}
    BY <1>1, FileOfEntry, CursorAssumption
<1> SUFFICES ASSUME NEW f \in FileNames PROVE LWPartial(f)' /\ LWHeld(f)' /\ LWPresent(f)'
    BY DEF LastWriteWins, LWPartial, LWHeld, LWPresent
<1>3. CASE f = g
    <2>1. tests'[f] = TestOf(PosnPairs[gen])
        BY <1>2, <1>3 DEF LWInv, CIInv
    <2>2. gen \in 1..(gen' - 1) /\ (gen + 1)..(gen' - 1) = {}
        BY <1>1
    <2> QED BY <2>1, <2>2, <1>2, <1>3 DEF LWPartial, LWHeld, LWPresent
<1>4. CASE f # g
    <2>1. tests'[f] = tests[f]
        BY <1>4 DEF LWInv, CIInv
    <2> QED BY <2>1, <1>4, LWOtherFile
<1> QED BY <1>3, <1>4

(* A write that fails after truncating the file of the entry at gen: that *)
(* file is now partial, and only where writes may fail.                    *)
LEMMA LWInvPartial ==
    ASSUME LWInv, WriteMayFail, gen <= Len(PosnPairs),
           tests' = [tests EXCEPT ![FileOf(PosnPairs[gen])] = PartialFile],
           gen' = gen + 1
    PROVE  LastWriteWins'
<1> DEFINE g == FileOf(PosnPairs[gen])
<1>1. gen \in 1..Len(PosnPairs) /\ Len(PosnPairs) \in Nat
    BY LenPosnPairs DEF LWInv, CIInv, CTypeOK
<1>2. g \in FileNames /\ PartialFile # NoFile
    BY <1>1, FileOfEntry, CursorAssumption
<1> SUFFICES ASSUME NEW f \in FileNames PROVE LWPartial(f)' /\ LWHeld(f)' /\ LWPresent(f)'
    BY DEF LastWriteWins, LWPartial, LWHeld, LWPresent
<1>3. CASE f = g
    <2>1. tests'[f] = PartialFile
        BY <1>2, <1>3 DEF LWInv, CIInv
    <2>2. gen \in 1..(gen' - 1)
        BY <1>1
    <2> QED BY <2>1, <2>2, <1>3 DEF LWPartial, LWHeld, LWPresent
<1>4. CASE f # g
    <2>1. tests'[f] = tests[f]
        BY <1>4 DEF LWInv, CIInv
    <2> QED BY <2>1, <1>4, LWOtherFile
<1> QED BY <1>3, <1>4

(* A write that fails before the file is created: no file changes, and    *)
(* this happens only where writes may fail, so the clauses about the last  *)
(* entry do not apply.                                                      *)
LEMMA LWInvUnchanged ==
    ASSUME LWInv, WriteMayFail, gen <= Len(PosnPairs), UNCHANGED tests, gen' = gen + 1
    PROVE  LastWriteWins'
<1> SUFFICES ASSUME NEW f \in FileNames PROVE LWPartial(f)' /\ LWHeld(f)' /\ LWPresent(f)'
    BY DEF LastWriteWins, LWPartial, LWHeld, LWPresent
<1>1. gen \in 1..Len(PosnPairs) /\ Len(PosnPairs) \in Nat
    BY LenPosnPairs DEF LWInv, CIInv, CTypeOK
<1>2. LWPartial(f) /\ LWHeld(f)
    BY LWClauses DEF LWInv
<1>3. 1..(gen - 1) \subseteq 1..(gen' - 1)
    BY <1>1
<1>4. LWPartial(f)'
    BY <1>2, <1>3 DEF LWPartial
<1>5. LWHeld(f)'
    <2> SUFFICES ASSUME tests[f] \notin {NoFile, PartialFile} PROVE LWHeld(f)'
        BY DEF LWHeld
    <2>1. PICK i \in 1..(gen - 1) :
              /\ FileOf(PosnPairs[i]) = f
              /\ tests[f] = TestOf(PosnPairs[i])
        BY <1>2 DEF LWHeld
    <2> QED BY <2>1, <1>3 DEF LWHeld
<1>6. LWPresent(f)'
    BY DEF LWPresent
<1> QED BY <1>4, <1>5, <1>6

(* Every step of the tooling keeps LWInv.  A failed write happens only     *)
(* where writes may fail; a run of the harness touches neither the files   *)
(* nor the generator's cursor.                                             *)
LEMMA LWInvNext == LWInv /\ [CNext]_cvars => LWInv'
<1> SUFFICES ASSUME LWInv, [CNext]_cvars PROVE LWInv'
    OBVIOUS
<1>1. CIInv'
    BY CIInvNext DEF LWInv
<1>2. LastWriteWins'
    <2>1. CASE GenerateOne
        <3>1. gen <= Len(PosnPairs) /\ gen' = gen + 1
            BY <2>1 DEF GenerateOne
        <3>2. CASE tests' = [tests EXCEPT ![FileOf(PosnPairs[gen])] = TestOf(PosnPairs[gen])]
            BY <3>1, <3>2, LWInvWrite
        <3>3. CASE WriteMayFail /\ UNCHANGED tests
            BY <3>1, <3>3, LWInvUnchanged
        <3>4. CASE WriteMayFail /\ tests' = [tests EXCEPT ![FileOf(PosnPairs[gen])] = PartialFile]
            BY <3>1, <3>4, LWInvPartial
        <3> QED BY <2>1, <3>2, <3>3, <3>4 DEF GenerateOne
    <2>2. CASE \E f \in FileNames, update \in BOOLEAN : RunTest(f, update)
        BY <2>2 DEF RunTest, LWInv, LastWriteWins
    <2>3. CASE UNCHANGED cvars
        BY <2>3 DEF LWInv, LastWriteWins, cvars
    <2> QED BY <2>1, <2>2, <2>3 DEF CNext
<1> QED BY <1>1, <1>2 DEF LWInv

(* For every posn_pairs list, whether or not writes may fail: each test    *)
(* file is absent, partial after a failed write, or holds the test of an  *)
(* entry already processed that names it; when no write fails, it holds   *)
(* the last such entry, and every position processed has its file.         *)
THEOREM LastWriteWinsHolds == CSpec => []LastWriteWins
BY LWInvInit, LWInvNext, PTL DEF CSpec, LWInv
=============================================================================
