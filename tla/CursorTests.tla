---------------------------- MODULE CursorTests ----------------------------
(***************************************************************************)
(* The cursor-test tooling of move-analyzer/tests/cursor_tests.rs:         *)
(*  - generate_cursor_test writes one JSON test file per (line, character, *)
(*    description) triple of its posn_pairs list, named                    *)
(*    dot_call_{line}_{character}.json, with fs::write (which overwrites); *)
(*  - cursor_testsuite runs one test file: CursorTest::test renders        *)
(*    "-- line:character ---", "expected: description" and the cursor      *)
(*    context, and check_expected compares that with the .exp baseline,    *)
(*    or overwrites the baseline when UPDATE_BASELINE is set.              *)
(* The cursor context get_symbols computes at a position is an opaque      *)
(* value given by the constant ContextAt; NoContext stands for a position  *)
(* where it reports no symbols or no cursor context, which the two        *)
(* unwrap calls of CursorTest::test turn into a panic of that test.        *)
(* fs::write in the generator may fail (WriteMayFail); its result is       *)
(* discarded.  fs::write creates (truncating) and then writes, so a failed *)
(* write leaves the old file, or an empty or partial file (PartialFile),   *)
(* which serde_json then fails to parse when the suite reads it.           *)
(* The generator writes into the working directory and the suite reads     *)
(* tests/cursor_tests/: the batch reaches the suite by hand, after the     *)
(* generator has run.  The model starts from an empty test directory and   *)
(* lets the suite run once the batch is complete.                          *)
(***************************************************************************)
EXTENDS Naturals, Sequences

CONSTANTS
    PosnPairs,   \* the posn_pairs list: a sequence of <<line, character, description>>
    ContextAt(_, _), \* the cursor context get_symbols reports at (line, character)
    NoFile,      \* a file that does not exist
    PartialFile, \* a test file left empty or truncated by a failed write
    NoContext,   \* get_symbols reports no symbols or no cursor context
    WriteMayFail \* fs::write of a generated test file may fail

(* The file name dot_call_{line}_{character}.json of an entry of posn_pairs *)
(* (two entries of one position name one file), and the CursorTest built  *)
(* from it; the directory and file fields are the same for every entry.   *)
FileOf(p) == <<p[1], p[2]>>

TestOf(p) == [line |-> p[1], character |-> p[2], description |-> p[3]]

ASSUME CursorAssumption ==
    /\ PosnPairs \in Seq(Nat \X Nat \X STRING)
    /\ WriteMayFail \in BOOLEAN
    /\ PartialFile # NoFile
    /\ \A i \in DOMAIN PosnPairs : TestOf(PosnPairs[i]) \notin {NoFile, PartialFile}

VARIABLES
    gen,       \* index of the next posn_pairs entry generate_cursor_test writes
    tests,     \* the JSON test files: file name <<line, character>> -> test
    baseline,  \* the .exp files: file name -> rendered output, or NoFile
    outcome    \* result of the last cursor_testsuite run of each file

cvars == <<gen, tests, baseline, outcome>>

FileNames == {<<p[1], p[2]>> : p \in {PosnPairs[i] : i \in DOMAIN PosnPairs}}

Outcomes == {"not_run", "ok", "updated", "differ", "no_baseline", "panic", "bad_test"}

(* CursorTest::test: the three lines written to the output buffer. *)
TestOutput(t) == <<t.line, t.character, t.description, ContextAt(t.line, t.character)>>

CInit ==
    /\ gen = 1
    /\ tests = [f \in FileNames |-> NoFile]
    /\ baseline = [f \in FileNames |-> NoFile]
    /\ outcome = [f \in FileNames |-> "not_run"]

(* Mutant of GenerateOne: the file is created only when it does not exist *)
(* yet (as with create_new), so the first of two entries of one position   *)
(* wins.                                                                   *)
GenerateOneFirstWins ==
    /\ gen <= Len(PosnPairs)
    /\ LET p == PosnPairs[gen]
       IN  \/ tests' = IF tests[FileOf(p)] = NoFile
                        THEN [tests EXCEPT ![FileOf(p)] = TestOf(p)]
                        ELSE tests
           \/ /\ WriteMayFail
              /\ \/ UNCHANGED tests
                 \/ tests' = [tests EXCEPT ![FileOf(p)] = PartialFile]
    /\ gen' = gen + 1
    /\ UNCHANGED <<baseline, outcome>>

(* One iteration of the loop of generate_cursor_test: build the CursorTest *)
(* and fs::write it to dot_call_{line}_{character}.json.  The write either *)
(* creates or overwrites the file, or fails, before the file is created   *)
(* (it is unchanged) or after it was truncated (it is left partial);      *)
(* `let _ =` discards the result, so the loop goes on either way.          *)
GenerateOne ==
    /\ gen <= Len(PosnPairs)
    /\ LET p == PosnPairs[gen]
       IN  \/ tests' = [tests EXCEPT ![FileOf(p)] = TestOf(p)]
           \/ /\ WriteMayFail
              /\ \/ UNCHANGED tests
                 \/ tests' = [tests EXCEPT ![FileOf(p)] = PartialFile]
    /\ gen' = gen + 1
    /\ UNCHANGED <<baseline, outcome>>

(* Mutant of RunTest: a missing baseline is treated as success. *)
RunTestMissingOk(f, update) ==
    /\ gen > Len(PosnPairs)
    /\ tests[f] # NoFile
    /\ LET t == tests[f]
           out == TestOutput(t)
       IN  IF t = PartialFile
           THEN /\ outcome' = [outcome EXCEPT ![f] = "bad_test"]
                /\ UNCHANGED baseline
           ELSE IF ContextAt(t.line, t.character) = NoContext
           THEN /\ outcome' = [outcome EXCEPT ![f] = "panic"]
                /\ UNCHANGED baseline
           ELSE IF update
           THEN /\ baseline' = [baseline EXCEPT ![f] = out]
                /\ outcome' = [outcome EXCEPT ![f] = "updated"]
           ELSE /\ outcome' = [outcome EXCEPT ![f] =
                      IF baseline[f] = NoFile THEN "ok"
                      ELSE IF baseline[f] = out THEN "ok" ELSE "differ"]
                /\ UNCHANGED baseline
    /\ UNCHANGED <<gen, tests>>

(* Mutant of RunTest: the output is written to the baseline as the test   *)
(* produces it, so a test that panics leaves the lines it wrote so far.    *)
RunTestStreamed(f, update) ==
    /\ gen > Len(PosnPairs)
    /\ tests[f] # NoFile
    /\ LET t == tests[f]
           out == TestOutput(t)
       IN  IF t = PartialFile
           THEN /\ outcome' = [outcome EXCEPT ![f] = "bad_test"]
                /\ UNCHANGED baseline
           ELSE IF ContextAt(t.line, t.character) = NoContext
           THEN /\ outcome' = [outcome EXCEPT ![f] = "panic"]
                /\ baseline' = IF update
                               THEN [baseline EXCEPT ![f] = SubSeq(out, 1, 3)]
                               ELSE baseline
           ELSE IF update
           THEN /\ baseline' = [baseline EXCEPT ![f] = out]
                /\ outcome' = [outcome EXCEPT ![f] = "updated"]
           ELSE /\ outcome' = [outcome EXCEPT ![f] =
                      IF baseline[f] = NoFile THEN "no_baseline"
                      ELSE IF baseline[f] = out THEN "ok" ELSE "differ"]
                /\ UNCHANGED baseline
    /\ UNCHANGED <<gen, tests>>

(* cursor_testsuite on one test file, with or without UPDATE_BASELINE.     *)
(* A partial test file fails to parse (serde_json::from_reader, line 98)   *)
(* and the test fails with no output.                                      *)
(* CursorTest::test writes into an in-memory buffer; at a position with   *)
(* no cursor context an unwrap panics and the test fails before           *)
(* check_expected is reached.  Otherwise check_expected writes the        *)
(* baseline in update mode, and in compare mode fails when the baseline   *)
(* is missing or differs and succeeds when it matches.  The suite runs on *)
(* the complete batch (see the module header).                             *)
RunTest(f, update) ==
    /\ gen > Len(PosnPairs)
    /\ tests[f] # NoFile
    /\ LET t == tests[f]
           out == TestOutput(t)
       IN  IF t = PartialFile
           THEN /\ outcome' = [outcome EXCEPT ![f] = "bad_test"]
                /\ UNCHANGED baseline
           ELSE IF ContextAt(t.line, t.character) = NoContext
           THEN /\ outcome' = [outcome EXCEPT ![f] = "panic"]
                /\ UNCHANGED baseline
           ELSE IF update
           THEN /\ baseline' = [baseline EXCEPT ![f] = out]
                /\ outcome' = [outcome EXCEPT ![f] = "updated"]
           ELSE /\ outcome' = [outcome EXCEPT ![f] =
                      IF baseline[f] = NoFile THEN "no_baseline"
                      ELSE IF baseline[f] = out THEN "ok" ELSE "differ"]
                /\ UNCHANGED baseline
    /\ UNCHANGED <<gen, tests>>

CNext ==
    \/ GenerateOne
    \/ \E f \in FileNames, update \in BOOLEAN : RunTest(f, update)

CSpec == CInit /\ [][CNext]_cvars

-----------------------------------------------------------------------------
(* Type invariant. *)
CTypeOK ==
    /\ gen \in 1..(Len(PosnPairs) + 1)
    /\ \A f \in FileNames : outcome[f] \in Outcomes

(* A test passes only against the baseline of its own output: a compare    *)
(* run that reports success had an .exp file equal to what the test        *)
(* renders now, and a test whose .exp is missing never passes.             *)
NoSilentPass ==
    \A f \in FileNames :
        outcome[f] = "ok" =>
            /\ baseline[f] # NoFile
            /\ baseline[f] = TestOutput(tests[f])

(* A baseline is never a truncated or foreign output: every .exp file      *)
(* holds the complete output of its own test, even after tests that       *)
(* panicked at a position without cursor context.                          *)
BaselineIsFullOutput ==
    \A f \in FileNames :
        baseline[f] # NoFile => baseline[f] = TestOutput(tests[f])

(* The comment on generate_cursor_test: the listed positions are the new   *)
(* batch of tests.  Once the generator has run, every entry of posn_pairs  *)
(* is a test file carrying its description.                                *)
EveryPairGenerated ==
    gen > Len(PosnPairs) =>
        \A i \in DOMAIN PosnPairs :
            LET p == PosnPairs[i]
            IN  tests[FileOf(p)] = TestOf(p)

(* What the generator leaves on disk, for a posn_pairs list that may name *)
(* one position twice: a test file is absent, partial after a failed      *)
(* write, or holds the test of an entry already processed that names it, *)
(* never a foreign one.  When no write fails, each position processed has *)
(* its file, holding the LAST entry naming it (fs::write overwrites), so   *)
(* an earlier entry of that position is lost.                              *)
LastWriteWins ==
    \A f \in FileNames :
        /\ tests[f] = PartialFile =>
              WriteMayFail /\ \E i \in 1..(gen - 1) : FileOf(PosnPairs[i]) = f
        /\ tests[f] \notin {NoFile, PartialFile} =>
              \E i \in 1..(gen - 1) :
                  /\ FileOf(PosnPairs[i]) = f
                  /\ tests[f] = TestOf(PosnPairs[i])
                  /\ ~WriteMayFail =>
                        \A j \in (i + 1)..(gen - 1) : FileOf(PosnPairs[j]) # f
        /\ ~WriteMayFail /\ (\E i \in 1..(gen - 1) : FileOf(PosnPairs[i]) = f)
              => tests[f] # NoFile

(* Inductive invariant behind NoSilentPass and BaselineIsFullOutput.  The  *)
(* batch reaches the suite only once the generator's loop is done, so     *)
(* while test files may still be rewritten no baseline exists and no test *)
(* has run; after that the test files never change again.                  *)
CIInv ==
    /\ CTypeOK
    /\ DOMAIN tests = FileNames
    /\ DOMAIN baseline = FileNames
    /\ DOMAIN outcome = FileNames
    /\ gen <= Len(PosnPairs) =>
           \A f \in FileNames : baseline[f] = NoFile /\ outcome[f] = "not_run"
    /\ BaselineIsFullOutput
    /\ NoSilentPass
=============================================================================
