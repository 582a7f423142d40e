# Verification project: the Move compiler's IDE annotation layer

This directory holds TLA+ models of the IDE annotation layer of the Move compiler
(`move-compiler/src/shared/ide.rs`) and of the cursor-test tooling of the Move
analyzer (`move-analyzer/tests/cursor_tests.rs`). It holds TLC configurations
that check them on small instances, and TLAPS proofs, for every instance, of the store's
main invariants and of the cursor harness's invariants.

## 1. Inventory

### Components and their state

| Component | Source | State | Operations |
|---|---|---|---|
| Annotation store `IDEInfo` | ide.rs:32-35, 163-196 | `annotations: Vec<(Loc, IDEAnnotation)>`, one per owner | `new`, `add_ide_annotation` (push), `extend` (append, consuming `other`), `is_empty`, `iter` (read only), `iter_mut` (in-place rewrite), `into_iter` (move to the consumer) |
| Fact model | ide.rs:37-161 | none (values) | `AutocompleteMethod::new` |
| Alias projection | ide.rs:198-262 | none | `From<&BTreeMap<Symbol, LeadingAccessEntry>>`, `From<&BTreeMap<Symbol, MemberEntry>>` |
| Pattern display | ide.rs:364-430 | none | `Display for PatternSuggestion` |
| Renderer | ide.rs:264-362 | none | `From<(Loc, IDEAnnotation)> for Diagnostic` |
| Cursor test tooling | cursor_tests.rs | JSON test files, `.exp` baselines | `generate_cursor_test`, `CursorTest::test`, `cursor_testsuite`, `check_expected` |
| Cursor resolution `get_symbols` | not among the sources | symbol table | used through its result only |
| VM configuration | runtime.rs | plain data with defaults | none that changes state |

### How they interact

The typing pass and its sub-analyses each own an `IDEInfo`. Each one calls
`add_ide_annotation` as it walks the AST. A parent absorbs a child's store with
`extend`, which takes the child's store by value and drains it. For
path-autocomplete facts, the pass first projects the alias table in scope into
an `AliasAutocompleteInfo`. When the pass ends, the store is moved out with
`into_iter`. Each `(loc, annotation)` pair is then turned into a `Diagnostic`,
in vector order, and the test harnesses compare those diagnostics with golden
files. The cursor tests drive `get_symbols` at a position, render the cursor
context it reports, and compare the result with a `.exp` baseline
(`check_expected`). `generate_cursor_test` writes the JSON test files from a
literal list of positions.

### What is hard

Nothing here runs concurrently: the code is single-threaded and has no
callbacks or timeouts. The hard parts are sequences of legal calls and edge
cases of formatting:
- ownership moves among several stores (`extend`, `into_iter`, `new`) that
  must neither lose nor duplicate a fact;
- merge order, which fixes the order of golden output;
- `iter_mut`, which breaks the append-only discipline the spec describes;
- zero-field patterns and the three forms of the Oxford list;
- completeness and order of autocomplete candidates for both table flavors;
- file overwrites, discarded write errors and truncated files in the test
  generator;
- tests that panic at a position without cursor context;
- the missing-baseline branch of `check_expected`.

`PROJECT.json` lists the hazards, each at its line.

### What makes each component correct

- **Store:** every recorded fact reaches the consumer exactly once, and a store
  only grows at its end. The spec adds that a fact is never modified; the code
  does not guarantee this.
- **Projection and renderer:** every alias is offered exactly once, grouped by
  category and sorted within each group. Every missing arm can be read back
  from the message, in the shape its kind requires.
- **Cursor tooling:** every listed position becomes a test. A test passes only
  against a baseline that exists and equals its output, and a test file that
  a failed write left truncated is never passed.

## 2. Modules and how they map to the code

### `IDEInfo` (store) and `IDEInfo_proofs`

- **State:**
  - `stores[h]` is holder `h`'s vector.
  - `live[h]` says whether `h` currently owns a store (it has not been moved out).
  - `emitted` is what `into_iter` handed to the consumer, in order.
  - `nextId` is a ghost counter of `add_ide_annotation` calls.
- **Entries:** each entry is `[id, loc, ann]`. `loc` and `ann` are model values.
  `id` is a ghost field so that properties can follow an entry through moves;
  no action reads it.
- **Actions:** `New`, `AddIdeAnnotation`, `Extend`, `IterMut` (through
  `WriteEntry`) and `IntoIter`. `is_empty` and `iter` only read, so they are
  not actions. Three operations that change state are not actions (section 5):
  `clone`, dropping a live store, and overwriting a live store with `new()`.
  `New(h)` requires that `h` owns no store.
- **Moves:** `Extend(h, o)` sets `o`'s vector to empty and marks `o` as not
  owning a store. In Rust, `other` is moved into `extend` and dropped.
- **Bound:** `MaxRecords` caps the number of `add_ide_annotation` calls.

### `AnnotationLedger` (the store's contract)

- **Source:** the contract of spec.md §4.1, not the code. Recorded facts are
  numbered and held in a set `pending`. The consumer's output `out` is a
  sequence of facts, and `issued` counts the facts recorded.
- **Steps:**
  - `Record` adds the next fact to `pending`.
  - `Consume` moves a batch of distinct pending facts, in any order, to the end
    of `out`.
- **What it leaves out:** where a pending fact is stored, merging and rewriting
  are invisible to it.
- **Refinement:** `IDEInfo` maps onto it by `Ledger == INSTANCE
  AnnotationLedger WITH ...`:
  - `pending` is the union of the holders' id sets;
  - `out` is the ids of `emitted`;
  - `issued` is `nextId - 1`.

  `add_ide_annotation` is a `Record`, and `into_iter` is a `Consume` of its
  vector's ids. `new`, `extend` and `iter_mut` are ledger stutters.
- **Its own invariant:** `LedgerInv` is the contract's exactly-once
  guarantee:
  - the output has no repeated fact;
  - no fact is both pending and output;
  - pending and output facts together are exactly `1..issued`.

  It is proved, not run. `AnnotationLedger_proofs` proves it for the
  contract, and `IDEInfoLedger_proofs` carries it to the store (section 4).
- **What the contract does not say:** it is conservation only. Merge order
  and the order of a consumed batch are free in it, so the store's ordering
  guarantee is `SlotsGrowAtEnd`, stated on the store itself.

### `IDERender`

- **Text:** rendered text is modelled as TLA+ strings. Each `format!` is the
  concatenation it performs. `Vec::join` is `JoinStr`, and `repeat("_").take(n)`
  is `RepeatStr`.
- **Order:** Rust's `Ord` on `Symbol` compares strings, and `BTreeSet` iterates
  in that order. TLC has no order on strings, so the constant `IdentOrder` lists
  the identifiers of an instance in byte order. `BTreeIter` sorts by it,
  lexicographically on tuples.
- **Pure functions:** `FromLeadingAccess`, `FromMemberEntries`,
  `DisplayPattern`, `ToDiagnostic` and one operator per match arm.
- **Modelled from the spec:** `format_oxford_list` and `debug_display!` are not
  under `src/`. `FormatOxfordList` follows the spec's three forms.
  `DebugDisplayTypes` follows the spec's example.
- **State machine:** the consumer's step. The initial state holds either an
  alias table of either flavor or another annotation. `ProjectLeadingAccess` or
  `ProjectMemberEntries` builds the path annotation, and `Render` converts it to
  a `Diagnostic`.
- **Reading messages back:** `QuotedItems`, `ShapeOK` and `Strip` read a
  rendered message character by character. Only the properties use them.

### `CursorTests`

- `GenerateOne` is one iteration of `generate_cursor_test`'s loop. It writes
  the file `FileOf(p)` = `<<line, character>>` with the `CursorTest` `TestOf(p)`,
  and overwrites any earlier file of that name, as `fs::write` does. When
  `WriteMayFail` holds, the write may instead fail, and `let _ =` discards the
  error. `fs::write` opens the file with `File::create`, which truncates it,
  and then calls `write_all`. A failure can therefore leave the old file (the
  open failed) or a truncated one (the write failed), which the model value
  `PartialFile` stands for.
- `RunTest(f, update)` is `cursor_testsuite` followed by `check_expected`, with
  or without `UPDATE_BASELINE`.
  - A truncated test file does not parse, so the test fails (`bad_test`) and
    writes no baseline.
  - At a position where get_symbols reports no context (`NoContext`), one of the
    unwraps at lines 62 and 66 panics.
  - A panic makes the test fail before `check_expected` runs. The output went to
    an in-memory buffer, so no baseline is written.
- `TestOutput` is what `CursorTest::test` writes. The cursor context at a
  position is the opaque constant `ContextAt`.
- **Hand-off:** the generator writes into the working directory, and the suite
  reads `tests/cursor_tests/`. A developer moves the new batch there by hand
  (the comment above `generate_cursor_test` says so). The model states that
  hand-off as the guard `gen > Len(PosnPairs)` on `RunTest`: the suite runs on
  the complete batch the generator wrote. That guard is an assumption about how
  the tools are used, not a condition in the code.
- **Unreachable branch:** `check_expected`'s `differ` outcome needs the output
  of a test to change between runs. `TestOutput` is a function of the test, so
  that branch is never taken in the model.

## 3. Runs

| Run | Config | Checks | Result |
|---|---|---|---|
| `ide_store` | `MC_IDEInfo.cfg` | `ExactlyOnce`, `SlotsGrowAtEnd` | pass, 71,650 states |
| `ide_store_append_only` | `MC_IDEInfo_appendonly.cfg` | `AppendOnly` | violated by `iter_mut` |
| `render` | `MC_IDERender.cfg` | `MissingArmsText`, `AutocompleteCandidates`, `MacroCallNotes` | pass, 740 states |
| `render_named_empty` | `MC_IDERender_NamedEmptyBraces.cfg` | `NamedEmptyBraces` | violated: `M::S {  }` |
| `render_macro_message` | `MC_IDERender_MacroCallMessage.cfg` | `MacroCallMessage` | violated: message is `macro call info` |
| `cursor_harness` | `MC_CursorTests.cfg` | `NoSilentPass`, `BaselineIsFullOutput` | pass, 2,756 states |
| `cursor_generate` | `MC_CursorTests_generate.cfg` | `EveryPairGenerated` | violated: (28, 14) written twice |
| `cursor_last_write` | `MC_CursorTests_lastwrite.cfg` | `LastWriteWins` | pass, 133 states |

### Properties

- **`ExactlyOnce` (invariant):** every annotation recorded so far is, exactly
  once, either in one holder's store or in the consumer's output. A fact that
  went through any chain of `extend`, `into_iter` and `new` is neither lost nor
  reported twice.
- **`SlotsGrowAtEnd` (action property):** for a holder that owns a store before
  and after a step, the entries it had are still its first entries, in the same
  order. The consumer's output also only grows at its end. This is the
  receiver-first order of `extend` that golden output depends on.
- **`AppendOnly` (action property, the spec's rule):** an owned store's old
  vector is a prefix of its new one, entry for entry. TLC finds the
  counterexample in four states: `iter_mut` rewrites an entry's location or
  payload.
- **`MissingArmsText` (invariant):** the missing-arms message holds one quoted
  item per arm, in order, and each item has the shape its arm kind requires:
  - a tag-only variant is its path alone, with no delimiters;
  - a positional unpack is its path, then parentheses holding exactly
    `field_count` wildcards, even zero;
  - a named unpack is its path, then braces holding the field names in order.

  The instance covers lists of one, two and three arms.
- **`AutocompleteCandidates` (invariant):** for an alias table of either
  flavor, the path-autocomplete message offers each alias exactly once. Members
  come first, then modules, then addresses, then type parameters, and each group
  is ordered by alias name.
- **`MacroCallNotes` (invariant):** the macro-call diagnostic first names the
  macro. It then reports three optional notes, each at most once, exactly when
  its part exists, and in this order:
  - the method alias;
  - the type arguments;
  - the subject, which is the first by-value argument and no other.

  The instance has calls with two by-value arguments, so a renderer that
  reported another argument is caught.
- **`NamedEmptyBraces`, `MacroCallMessage`:** two statements from the spec's
  §8 that the code does not meet. See the findings in `PROJECT.json`.
- **`NoSilentPass` (invariant):** a compare-mode run reports success only if the
  baseline exists and equals the test's current output. A truncated test file
  is never passed.
- **`BaselineIsFullOutput` (invariant):** every `.exp` file holds the complete
  output of its own test. This holds even after tests that panicked at a
  position without cursor context, or failed on a truncated file, in update
  mode.
- **`LastWriteWins` (invariant):** what the generator leaves on disk, at every
  point of its loop. Every test file holds the test of an entry already
  processed that names its position, unless a failed write left it truncated.
  When no write fails, it holds the last such entry, and every position
  processed has its file. This says exactly what
  is lost when `posn_pairs` names one position twice: the earlier entries, and
  nothing else.
- **`EveryPairGenerated`:** once the generator has finished, every entry of
  `posn_pairs` is a test file that carries its own description. It is violated
  because two entries share the file `dot_call_28_14.json`.

Each property of a passing run has a mutant in `PROJECT.json`: a plausible bug
in the mapped definition that TLC catches. For example, `extend` as a copy
breaks `ExactlyOnce`, and `extend` prepending breaks
`SlotsGrowAtEnd`. Further mutants:
- an empty variant printed with `()` breaks `MissingArmsText`;
- the subject taken from the last by-value argument breaks `MacroCallNotes`;
- output streamed into the baseline breaks `BaselineIsFullOutput`;
- a harness that passes a test whose baseline is missing breaks
  `NoSilentPass`;
- a generator that creates a file only when it is absent, so that the first
  entry of a position wins, breaks `LastWriteWins`.

### Bounds

- **Store:** three holders, two locations, two annotations, four records.
  - That is enough to record into two stores, merge one into the other, recreate
    the source, merge again, rewrite an entry and consume it.
  - The search explores the full state graph, to depth 13.
  - Symmetry over holders and annotations is sound: both are model values that
    are only compared for equality.
- **Renderer:**
  - field counts 0 to 2 and field lists of length 0 to 2, so the zero case, a
    single item and a separator all occur;
  - arm lists of length 1 to 3, so all three Oxford forms occur;
  - alias tables: every function from a subset of two names to every entry of
    each flavor.
- **Cursor tests:** the generator run uses the real 21-entry list, with writes
  that never fail, so that the duplicate is the only cause of the violation.
  The harness and last-write runs use five entries of it:
  - they give four files, one of them written twice;
  - in the harness run any write may fail, leaving the old file or a truncated
    one; the last-write run asks what happens when no write fails;
  - the position (28, 16) is given no cursor context, so that one test panics.

### Fairness and deadlock

- **The store:** no liveness property is stated. The code has no scheduler or
  retry whose progress it promises. When the store's operations are called is up
  to the typing pass, which is not among the sources.
- **The cursor tooling:** no liveness property is stated either. That the
  generator's `for` loop ends and that the harness runs every file it finds is
  plain sequential code; the interesting question is what holds at every point,
  which the invariants state.
- **Deadlock:** the store never deadlocks. The cursor harness run sets
  `CHECK_DEADLOCK FALSE`: when every write failed there is no test file, and the
  harness really stops.
- The renderer run sets `CHECK_DEADLOCK FALSE`: rendering is a pure function,
  and the consumer really stops once the diagnostic exists.

## 4. Proofs

### `IDEInfo_proofs.tla`

- **`TypeCorrect`:** `Spec => []TypeOK`, from the step lemma `TypeOKNext`.
  `TypeOK` is not run: that the vectors hold well-formed entries is what
  Rust's types already ensure; the proofs below need it as a lemma.
- **`ExactlyOnceHolds`:** `Spec => []ExactlyOnce`. `ExactlyOnce` is not
  inductive on its own. The strengthening `IInv` (defined in `IDEInfo.tla` and
  checked by TLC) adds:
  - `DeadEmpty`: a holder that owns no store has an empty vector, so `new()`
    discards nothing;
  - `IdsIssued`: every id present is below `nextId`, so a new record's id is
    fresh.

  `IInvInit` and `IInvNext` prove that `IInv` is inductive, with one step per
  action and one sub-step per conjunct the action can disturb. The argument
  rests on four lemmas about vectors of entries:
  - `IdSetEmpty`: the empty vector;
  - `IdSetAppend`: push adds exactly its id and keeps ids unique if the id is
    fresh;
  - `IdSetConcat`: append yields the union of the ids, and unique ids if both
    parts are unique and disjoint;
  - `RewriteEntry`: `iter_mut`'s rewrite keeps the type and the ids.

### `IDEInfoLedger_proofs.tla`

- **`StoreImplementsLedger`:** `Spec => LedgerRefinement`, where
  `LedgerRefinement` is `Ledger!LSpec`. It is a step on the way to
  `StoreDeliversExactlyOnce`, not a result of its own: the contract is
  conservation only. It is the standard refinement argument:
  - `LedgerInit`: `Init => Ledger!LInit`;
  - `LedgerStep`: `IInv /\ [Next]_vars => [Ledger!LNext]_Ledger!lvars`.

  `IInv` is what makes `into_iter`'s vector a legal ledger batch:
  - its ids are pending;
  - they are distinct (`NoDup` within a store);
  - they belong to no other store (`NoDup` across stores), so removing them
    leaves exactly the other stores' ids pending.

  The batch must have at most `MaxRecords` facts. Lemma `LenBound` shows this:
  the ids of a vector with unique ids are an injection into `1..MaxRecords`
  (`FS_Injection`). `IdSeqFacts` and `IdSeqConcat` relate the ids of vectors to
  the ledger's sequences.
- **`GrowsAtEndHolds`:** `Spec => SlotsGrowAtEnd`, from the step lemma
  `GrowsAtEndStep`. It needs only `TypeOK`, and rests on:
  - `PrefixOfConcat`: a sequence is the prefix of itself followed by another;
  - `IdPrefix`;
  - `IdSeqRewrite`: `iter_mut` keeps the ids in place.

- **`StoreDeliversExactlyOnce`:** `Spec => []Ledger!LedgerInv`. It is
  obtained from the contract alone. `StoreImplementsLedger` gives
  `Spec => Ledger!LSpec`. `AnnotationLedger_proofs!LedgerCorrect`, instantiated
  through the same mapping as `LedgerProofs`, gives `Ledger!LSpec =>
  []Ledger!LedgerInv`. This is a second argument for exactly-once delivery.
  It is not independent of `IInv`: `LedgerStep` rests on it. What it adds is
  that exactly-once delivery follows from the store's steps being ledger steps,
  which are checked one action at a time.

### `AnnotationLedger_proofs.tla`

- **`LedgerCorrect`:** `LSpec => []LedgerInv`, about the contract alone; it
  is what `StoreDeliversExactlyOnce` instantiates. `LedgerInv` is inductive as it
  stands, and it needs no assumption on `MaxRecords`.
  - `LedgerInvRecord`: the new fact `issued + 1` lies outside `1..issued`, so it
    is not in the output.
  - `LedgerInvConsume`: a batch is injective and drawn from `pending`, which is
    disjoint from the output. The step rests on two lemmas about sequences:
    - `RangeConcat`: the range of `s \o t` is the union of the ranges;
    - `InjectiveConcat`: injective sequences with disjoint ranges concatenate to
      an injective one.

### `CursorTests_proofs.tla`

- **`NoSilentPassHolds`:** `CSpec => []NoSilentPass`.
- **`BaselineIsFullOutputHolds`:** `CSpec => []BaselineIsFullOutput`.
- **`CTypeCorrect`:** `CSpec => []CTypeOK`.
- **`LastWriteWinsHolds`:** `CSpec => []LastWriteWins`.

These hold for every `posn_pairs` list, every cursor-context function and
either value of `WriteMayFail`. Neither safety property is inductive as it
stands: a generator step rewrites a test file, and that would break the link
between a baseline, or an "ok" verdict, and the test it came from.

The strengthening `CIInv` (in `CursorTests.tla`) adds the fact that rules this
out: while the generator's loop has an entry left, no baseline exists and no
test has run. This rests on the hand-off assumption of section 2 (the suite
runs on the finished batch). Once that holds, test files never change again.
TLC checked `CIInv` as an invariant of the `cursor_harness` instance before the
proof (2,756 states).

The proof is laid out as:
- `CIInvInit`;
- `CIInvGenerate`;
- `CIInvRunTest`, with one case each for the truncated test, the panic, the
  update and the compare branches;
- `CIInvNext`.

`LastWriteWins` is inductive together with `CIInv` (`LWInv`), which supplies
the cursor's range and the domain of the files. The proof of a successful write
(`LWInvWrite`) has two cases:
- the file written now holds the entry at `gen`, the last one processed;
- any other file keeps its witness entry, because the entry at `gen` names
  another position.

A failed write happens only when `WriteMayFail` holds. It either changes no
file (`LWInvUnchanged`) or leaves the file truncated (`LWInvPartial`), and in
both cases the last-entry and every-file conjuncts, which assume no failure,
stand vacuously, while the truncated file's witness is the entry at `gen`.
This needs the assumption that a test is neither `NoFile` nor `PartialFile`:
a complete test is not the absent or the truncated file. `CursorAssumption`
states that for the entries of `posn_pairs`, and TLC evaluates it on every
cursor run.

These hold for every set of holders, locations and annotations and for every
`MaxRecords` (assumption `ConstantsAssumption`). The proofs use the library's
`SequenceTheorems` (`ConcatProperties`, `AppendProperties`, `ExceptSeq`,
`LenProperties`, `SubSeqOfConcat1`, `SeqEqual`) and `FiniteSetTheorems`
(`FS_Injection`, `FS_Interval`).

Left to TLC only:
- **Liveness and `ENABLED`:** out of the prover's reach; no liveness
  property is stated.
- **The renderer's properties** (`MissingArmsText`, `AutocompleteCandidates`,
  `MacroCallNotes`) are about strings built with `\o` and about what
  `SetToSortSeq` and `FoldLeft` compute. The SMT backend treats strings as
  opaque values, not as sequences of characters, so the character-level
  properties cannot be stated to it. What a fold or a sort returns for every
  input needs induction over data. The library's induction theorems take an
  operator parameter, which the installed provers cannot instantiate.
- **The violation runs' properties:** they are false by design.

## 5. Not modelled

- **`get_symbols` and cursor resolution:** not among the sources. Their result
  at a position is an opaque constant, possibly `NoContext`.
- **Other I/O errors of the harness:** the `?` at cursor_tests.rs:46 (reading
  the test JSON) and 49-61 (loading the package), the error of `fs::write` of
  a baseline at 75 and of reading it at 109 are surfaced as test failures and
  are not modelled; the truncated test file is the one I/O failure modelled,
  because its error is discarded by the generator.
- **The `differ` outcome:** see section 2; unreachable in the model.
- **`clone` of a store (ide.rs:32, derived `Clone`):** a clone merged or
  consumed next to its original would report every fact twice. The model has
  no clone action; `ExactlyOnce` holds under the assumption that the typing
  pass never clones a live store it also merges.
- **Dropping or overwriting a live store:** `New(h)` is enabled only when `h`
  owns no store, and no action drops a live store. Either would lose its facts;
  the model assumes that every store ends in `extend` or `into_iter`. Which
  stores the typing pass creates and drops is not among the sources.
- **The VM configuration (runtime.rs):** the spec puts it out of scope as a pure
  data holder. Its code is:
  - struct definitions;
  - `Default` impls that return constants;
  - `get_default_config_if_enabled`, behind the `gas-profiler` feature, which
    returns a default config when an environment variable was present at the
    first read of a `Lazy`.

  Nothing in the modelled components reads it, and no property of the layer
  depends on it. A model would restate constants.
- **Producer-side decisions:** which annotations the typing pass records, and
  where, are taken as arbitrary choices from small sets.

## 6. Plan

Done:
- **Sitting 1:**
  - the store, with `TypeCorrect` and `ExactlyOnceHolds`;
  - the renderer and projection;
  - the cursor tooling.
- **Sitting 2:**
  - the abstract contract `AnnotationLedger`, with its refinement run and
    theorem;
  - the proof of `SlotsGrowAtEnd`;
  - `MacroCallNotes`;
  - in the cursor tooling: writes that fail silently, tests that panic
    without cursor context, and `BaselineIsFullOutput`.

- **Proof sitting 1:**
  - `CursorTests_proofs`: `NoSilentPass`, `BaselineIsFullOutput` and
    `CTypeOK`, from the strengthening `CIInv`;
  - `AnnotationLedger_proofs`: the contract's `LedgerInv`;
  - `StoreDeliversExactlyOnce`: the same invariant for the store, obtained
    through the refinement.

- **Proof sitting 2:**
  - `LastWriteWins`, with its run and mutant, and the theorem
    `LastWriteWinsHolds`;
  - a leaf of `IdSetConcat` split so that its injectivity step and its
    arithmetic step are proved separately.
- **Sitting 5:**
  - `fs::write`'s truncation is modelled (`PartialFile`, outcome `bad_test`),
    and `LastWriteWins` and its theorem are restated and proved over it;
  - the liveness property `EveryTestJudged`, the property `FileForEveryPair`
    and its run, the run of `TypeOK` and the run of `LedgerRefinement` are
    removed: they said nothing the code could get wrong;
  - the hand-off between generator and suite, `clone` and dropped stores are
    documented as assumptions.

Next:
1. **Merge discipline:** a module composing `IDEInfo` with the typing pass's
   merge discipline, in which sub-analyses are merged into their parent only,
   in traversal order. It would state that the consumer's output is in
   recording order under that discipline. Without the discipline this fails:
   TLC showed it when an earlier store is merged back into a newer one.
2. **Renderer inputs:** extend the renderer instance to Dot autocomplete order
   (methods before fields) and ellipsis entries, as properties if they earn a
   mutant.
3. **Pipeline:** compose the store with the renderer. The consumer renders
   `emitted` entries built from real annotation values, checking that golden
   output is the concatenation of the rendered facts in store order.
