----------------------------- MODULE IDERender -----------------------------
(***************************************************************************)
(* The pure half of move-compiler/src/shared/ide.rs: the alias projection  *)
(* (From<&BTreeMap<Symbol, LeadingAccessEntry>> and From<&BTreeMap<Symbol, *)
(* MemberEntry>> for AliasAutocompleteInfo), the Display of a              *)
(* PatternSuggestion, and From<(Loc, IDEAnnotation)> for Diagnostic.       *)
(*                                                                         *)
(* Text is modelled as TLA+ strings: an identifier, a module ident         *)
(* ("0x1::m") or an address is a short string, and every format! of the    *)
(* code is the concatenation it performs.  Rust's Ord on Symbol compares   *)
(* the strings; TLC has no order on strings, so the order is given as the  *)
(* constant IdentOrder, the identifiers in sorted order.                   *)
(***************************************************************************)
EXTENDS Naturals, Sequences, FiniteSets, SequencesExt

CONSTANTS
    Syms,          \* alias names, field names, binder names (Symbol)
    MIdents,       \* module identifiers as displayed, e.g. "0x1::m"
    Members,       \* member names (Name) of a module
    Addrs,         \* numerical addresses as displayed
    Types,         \* resolved types (N::Type) as displayed
    Exps,          \* typed by-value arguments (T::SequenceItem) as displayed
    IdentOrder     \* every identifier above, in Rust's Ord (byte) order

ASSUME RenderAssumption ==
    /\ IdentOrder \in Seq(Syms \cup MIdents \cup Members \cup Addrs)
    /\ \A x \in Syms \cup MIdents \cup Members \cup Addrs :
          \E i \in DOMAIN IdentOrder : IdentOrder[i] = x

-----------------------------------------------------------------------------
(* Strings. *)

(* Vec<String>::join(sep). *)
JoinStr(s, sep) ==
    IF s = << >> THEN ""
    ELSE FoldLeft(LAMBDA acc, x : acc \o sep \o x, Head(s), Tail(s))

(* std::iter::repeat(x).take(n). *)
RepeatStr(x, n) == [i \in 1..n |-> x]

Quote(x) == "'" \o x \o "'"

(* format_oxford_list!(conj, "'{}'", items), from shared/string_utils.rs  *)
(* (not among the sources): one item alone, two joined by the             *)
(* conjunction, three or more with a comma before the conjunction.        *)
FormatOxfordList(conj, items) ==
    LET n == Len(items)
        q == [i \in 1..n |-> Quote(items[i])]
    IN  CASE n = 0 -> ""
          [] n = 1 -> q[1]
          [] n = 2 -> q[1] \o " " \o conj \o " " \o q[2]
          [] n > 2 -> JoinStr(SubSeq(q, 1, n - 1), ", ") \o ", " \o conj
                        \o " " \o q[n]

-----------------------------------------------------------------------------
(* Rust's Ord on the tuples stored in the BTreeSets of                     *)
(* AliasAutocompleteInfo: lexicographic, component by component.           *)
Rank(x) == CHOOSE i \in DOMAIN IdentOrder : IdentOrder[i] = x

TupleLess(s, t) ==
    \E i \in DOMAIN s :
        /\ \A j \in 1..(i - 1) : s[j] = t[j]
        /\ Rank(s[i]) < Rank(t[i])

(* A BTreeSet iterated in order. *)
BTreeIter(S) == SetToSortSeq(S, TupleLess)

(* AliasAutocompleteInfo: four BTreeSets (the type parameters are stored   *)
(* as one-tuples so that one order serves all four).                      *)
AliasInfo(addresses, modules, members, typeParams) ==
    [addresses |-> addresses, modules |-> modules,
     members |-> members, type_params |-> typeParams]

(* From<&BTreeMap<Symbol, LeadingAccessEntry>>: every entry goes to the    *)
(* set of its tag.  `names` maps a symbol to [tag, ...].                   *)
FromLeadingAccess(names) ==
    LET D == DOMAIN names
    IN  AliasInfo(
          {<<s, names[s].addr>> : s \in {x \in D : names[x].tag = "Address"}},
          {<<s, names[s].mident>> : s \in {x \in D : names[x].tag = "Module"}},
          {<<s, names[s].mident, names[s].name>> :
                s \in {x \in D : names[x].tag = "Member"}},
          {<<s>> : s \in {x \in D : names[x].tag = "TypeParam"}})

(* Mutant of FromMemberEntries: the TypeParam arm of the match dropped. *)
FromMemberEntriesNoTypeParams(names) ==
    AliasInfo({}, {},
              {<<s, names[s].mident, names[s].name>> :
                    s \in {x \in DOMAIN names : names[x].tag = "Member"}},
              {})

(* From<&BTreeMap<Symbol, MemberEntry>>: members and type parameters only; *)
(* the address and module sets stay empty.                                 *)
FromMemberEntries(names) ==
    LET D == DOMAIN names
    IN  AliasInfo(
          {}, {},
          {<<s, names[s].mident, names[s].name>> :
                s \in {x \in D : names[x].tag = "Member"}},
          {<<s>> : s \in {x \in D : names[x].tag = "TypeParam"}})

-----------------------------------------------------------------------------
(* Mutant of DisplayPattern: a tag-only variant printed like a positional *)
(* variant with no fields, "M::E::V()".                                    *)
DisplayPatternEmptyParens(ps) ==
    CASE ps.kind = "Wildcard" -> "_"
      [] ps.kind = "Binder" -> ps.name
      [] ps.kind = "Value" -> ps.value
      [] ps.kind = "UnpackPositionalStruct" ->
            ps.module \o "::" \o ps.name
              \o "(" \o JoinStr(RepeatStr("_", ps.field_count), ", ") \o ")"
      [] ps.kind = "UnpackPositionalVariant" ->
            ps.module \o "::" \o ps.enum_name \o "::" \o ps.variant_name
              \o "(" \o JoinStr(RepeatStr("_", ps.field_count), ", ") \o ")"
      [] ps.kind = "UnpackNamedStruct" ->
            ps.module \o "::" \o ps.name \o " "
              \o "{ " \o JoinStr(ps.fields, " , ") \o " }"
      [] ps.kind = "UnpackNamedVariant" ->
            ps.module \o "::" \o ps.enum_name \o "::" \o ps.variant_name \o " "
              \o "{ " \o JoinStr(ps.fields, " , ") \o " }"
      [] ps.kind = "UnpackEmptyVariant" ->
            ps.module \o "::" \o ps.enum_name \o "::" \o ps.variant_name \o "()"

(* impl fmt::Display for PatternSuggestion. *)
DisplayPattern(ps) ==
    CASE ps.kind = "Wildcard" -> "_"
      [] ps.kind = "Binder" -> ps.name
      [] ps.kind = "Value" -> ps.value
      [] ps.kind = "UnpackPositionalStruct" ->
            ps.module \o "::" \o ps.name
              \o "(" \o JoinStr(RepeatStr("_", ps.field_count), ", ") \o ")"
      [] ps.kind = "UnpackPositionalVariant" ->
            ps.module \o "::" \o ps.enum_name \o "::" \o ps.variant_name
              \o "(" \o JoinStr(RepeatStr("_", ps.field_count), ", ") \o ")"
      [] ps.kind = "UnpackNamedStruct" ->
            ps.module \o "::" \o ps.name \o " "
              \o "{ " \o JoinStr(ps.fields, " , ") \o " }"
      [] ps.kind = "UnpackNamedVariant" ->
            ps.module \o "::" \o ps.enum_name \o "::" \o ps.variant_name \o " "
              \o "{ " \o JoinStr(ps.fields, " , ") \o " }"
      [] ps.kind = "UnpackEmptyVariant" ->
            ps.module \o "::" \o ps.enum_name \o "::" \o ps.variant_name

-----------------------------------------------------------------------------
(* From<(Loc, IDEAnnotation)> for Diagnostic.  A Diagnostic is its code,   *)
(* the primary label (loc, msg) and the notes, in order.                   *)
Diag(code, loc, msg, notes) ==
    [code |-> code, loc |-> loc, msg |-> msg, notes |-> notes]

(* debug_display!(type_arguments) (not among the sources): the types,      *)
(* comma separated, as the spec's example "Type arguments: T" shows.       *)
DebugDisplayTypes(tys) == JoinStr(tys, ", ")

(* An Option<T> is a sequence of length at most one. *)
OptNotes(opt, prefix) == [i \in DOMAIN opt |-> prefix \o opt[i]]

(* Mutant of MacroCallDiag: the subject note reports the last by-value     *)
(* argument instead of the first.                                          *)
MacroCallDiagLastArg(loc, info) ==
    Diag("MacroCallInfo", loc, "macro call info",
         << "Called " \o info.module \o "::" \o info.name >>
         \o OptNotes(info.method_name, "as method call ")
         \o (IF info.type_arguments = << >> THEN << >>
             ELSE << "Type arguments: " \o DebugDisplayTypes(info.type_arguments) >>)
         \o (IF info.by_value_args = << >> THEN << >>
             ELSE << "Subject arg: " \o info.by_value_args[Len(info.by_value_args)] >>))

MacroCallDiag(loc, info) ==
    Diag("MacroCallInfo", loc, "macro call info",
         << "Called " \o info.module \o "::" \o info.name >>
         \o OptNotes(info.method_name, "as method call ")
         \o (IF info.type_arguments = << >> THEN << >>
             ELSE << "Type arguments: " \o DebugDisplayTypes(info.type_arguments) >>)
         \o (IF info.by_value_args = << >> THEN << >>
             ELSE << "Subject arg: " \o Head(info.by_value_args) >>))

PathNames(info) ==
    [i \in DOMAIN BTreeIter(info.members) |->
        LET t == BTreeIter(info.members)[i] IN t[1] \o " -> " \o t[2] \o "::" \o t[3]]
    \o [i \in DOMAIN BTreeIter(info.modules) |->
        LET t == BTreeIter(info.modules)[i] IN t[1] \o " -> " \o t[2]]
    \o [i \in DOMAIN BTreeIter(info.addresses) |->
        LET t == BTreeIter(info.addresses)[i] IN t[1] \o " -> " \o t[2]]
    \o [i \in DOMAIN BTreeIter(info.type_params) |-> BTreeIter(info.type_params)[i][1]]

PathAutocompleteDiag(loc, info) ==
    Diag("Autocomplete", loc,
         "Possible in-scope names: " \o FormatOxfordList("or", PathNames(info)),
         << >>)

DotNames(info) ==
    [i \in DOMAIN info.methods |->
        info.methods[i].target_function[1] \o "::" \o info.methods[i].method_name]
    \o [i \in DOMAIN info.fields |-> info.fields[i][1]]

DotAutocompleteDiag(loc, info) ==
    Diag("Autocomplete", loc,
         "Possible dot names: " \o FormatOxfordList("or", DotNames(info)), << >>)

MissingMatchArmsDiag(loc, arms) ==
    Diag("MissingMatchArms", loc,
         "Missing arms: "
            \o FormatOxfordList("and", [i \in DOMAIN arms |-> DisplayPattern(arms[i])]),
         << >>)

EllipsisDiag(loc, e) ==
    Diag("EllipsisExpansion", loc,
         "Ellipsis expansion: "
            \o JoinStr(IF e.variant = "Positional" THEN e.entries
                       ELSE [i \in DOMAIN e.entries |-> e.entries[i] \o ": _"], ", "),
         << >>)

ToDiagnostic(loc, ann) ==
    CASE ann.kind = "MacroCallInfo" -> MacroCallDiag(loc, ann)
      [] ann.kind = "ExpandedLambda" ->
            Diag("ExpandedLambda", loc, "expanded lambda", << >>)
      [] ann.kind = "PathAutocompleteInfo" -> PathAutocompleteDiag(loc, ann.info)
      [] ann.kind = "DotAutocompleteInfo" -> DotAutocompleteDiag(loc, ann)
      [] ann.kind = "MissingMatchArms" -> MissingMatchArmsDiag(loc, ann.arms)
      [] ann.kind = "EllipsisMatchEntries" -> EllipsisDiag(loc, ann)
-----------------------------------------------------------------------------
(* The consumer's step.  A checking pass projects the alias table in scope *)
(* into a PathAutocompleteInfo annotation (either flavor of table), or     *)
(* records one of the other annotations; the consumer then converts the    *)
(* (loc, annotation) pair into a Diagnostic.                               *)
CONSTANTS
    Loc0,          \* the location the annotation is recorded at
    Annotations,   \* the non-path annotations a pass may record
    None           \* no table / no annotation / no diagnostic yet

LeadingAccessEntries ==
    {[tag |-> "Address", addr |-> x] : x \in Addrs}
    \cup {[tag |-> "Module", mident |-> m] : m \in MIdents}
    \cup {[tag |-> "Member", mident |-> m, name |-> n] : m \in MIdents, n \in Members}
    \cup {[tag |-> "TypeParam"]}

MemberEntries ==
    {[tag |-> "Member", mident |-> m, name |-> n] : m \in MIdents, n \in Members}
    \cup {[tag |-> "TypeParam"]}

(* A BTreeMap<Symbol, _> is a function from a set of symbols. *)
Tables(E) == UNION {[D -> E] : D \in SUBSET Syms}

AliasTables ==
    {[flavor |-> "LeadingAccess", names |-> t] : t \in Tables(LeadingAccessEntries)}
    \cup {[flavor |-> "Member", names |-> t] : t \in Tables(MemberEntries)}

VARIABLES table, ann, diag

renderVars == <<table, ann, diag>>

RInit ==
    \/ /\ table \in AliasTables
       /\ ann = None
       /\ diag = None
    \/ /\ table = None
       /\ ann \in Annotations
       /\ diag = None

(* AliasAutocompleteInfo::from(&names) for a LeadingAccessEntry table. *)
ProjectLeadingAccess ==
    /\ table # None /\ ann = None
    /\ table.flavor = "LeadingAccess"
    /\ ann' = [kind |-> "PathAutocompleteInfo", info |-> FromLeadingAccess(table.names)]
    /\ UNCHANGED <<table, diag>>

(* AliasAutocompleteInfo::from(&names) for a MemberEntry table. *)
ProjectMemberEntries ==
    /\ table # None /\ ann = None
    /\ table.flavor = "Member"
    /\ ann' = [kind |-> "PathAutocompleteInfo", info |-> FromMemberEntries(table.names)]
    /\ UNCHANGED <<table, diag>>

(* Diagnostic::from((loc, ann)). *)
Render ==
    /\ ann # None /\ diag = None
    /\ diag' = ToDiagnostic(Loc0, ann)
    /\ UNCHANGED <<table, ann>>

RNext == ProjectLeadingAccess \/ ProjectMemberEntries \/ Render

RSpec == RInit /\ [][RNext]_renderVars
-----------------------------------------------------------------------------
(* Reading a rendered message back, character by character. *)
CharAt(str, i) == SubSeq(str, i, i)

CountChar(str, c) == Cardinality({i \in 1..Len(str) : CharAt(str, i) = c})

OnlyChars(str, cs) == \A i \in 1..Len(str) : CharAt(str, i) \in cs

(* The text between the first and the second quote, the third and the      *)
(* fourth, ...: the items of a quoted list.                                *)
QuotedItems(str) ==
    LET q == SetToSortSeq({i \in 1..Len(str) : CharAt(str, i) = "'"}, <)
    IN  [k \in 1..(Len(q) \div 2) |-> SubSeq(str, q[2 * k - 1] + 1, q[2 * k] - 1)]

(* `str` with the characters in cs removed. *)
Strip(str, cs) ==
    FoldLeft(LAMBDA acc, i : IF CharAt(str, i) \in cs THEN acc ELSE acc \o CharAt(str, i),
             "", [i \in 1..Len(str) |-> i])

PathOf(ps) ==
    IF ps.kind \in {"UnpackPositionalStruct", "UnpackNamedStruct"}
    THEN ps.module \o "::" \o ps.name
    ELSE ps.module \o "::" \o ps.enum_name \o "::" \o ps.variant_name

(* The shape the spec (section 4.3, section 8) requires of a suggestion's  *)
(* text: a tag-only variant is its path and nothing else; a positional     *)
(* unpack is its path followed by parentheses holding exactly field_count  *)
(* wildcards, even none; a named unpack is its path followed by braces     *)
(* holding the field names in order, even none.                            *)
ShapeOK(ps, text) ==
    CASE ps.kind \in {"Wildcard", "Binder", "Value"} -> TRUE
      [] ps.kind = "UnpackEmptyVariant" ->
            /\ text = PathOf(ps)
            /\ \A c \in {"(", ")", "{", "}"} : CountChar(text, c) = 0
      [] ps.kind \in {"UnpackPositionalStruct", "UnpackPositionalVariant"} ->
            LET n == Len(PathOf(ps))
                inner == SubSeq(text, n + 2, Len(text) - 1)
            IN  /\ SubSeq(text, 1, n) = PathOf(ps)
                /\ CharAt(text, n + 1) = "(" /\ CharAt(text, Len(text)) = ")"
                /\ OnlyChars(inner, {"_", ",", " "})
                /\ CountChar(inner, "_") = ps.field_count
      [] ps.kind \in {"UnpackNamedStruct", "UnpackNamedVariant"} ->
            LET n == Len(PathOf(ps))
                inner == SubSeq(text, n + 3, Len(text) - 1)
            IN  /\ SubSeq(text, 1, n + 2) = PathOf(ps) \o " {"
                /\ CharAt(text, Len(text)) = "}"
                /\ Strip(inner, {" ", ","}) = FoldLeft(LAMBDA acc, f : acc \o f, "", ps.fields)

(* The missing-arms diagnostic lists every missing arm once, in order,     *)
(* each quoted and each in the shape its kind requires: a reader of the    *)
(* message (or a code action) can recover every arm and tell a tag-only   *)
(* variant from a positional one with no fields.                           *)
MissingArmsText ==
    diag # None /\ ann.kind = "MissingMatchArms" =>
        LET items == QuotedItems(diag.msg)
        IN  /\ Len(items) = Len(ann.arms)
            /\ \A i \in DOMAIN items : ShapeOK(ann.arms[i], items[i])

(* What a path-autocomplete candidate looks like for one alias entry. *)
CandidateText(s, e) ==
    CASE e.tag = "Member" -> s \o " -> " \o e.mident \o "::" \o e.name
      [] e.tag = "Module" -> s \o " -> " \o e.mident
      [] e.tag = "Address" -> s \o " -> " \o e.addr
      [] e.tag = "TypeParam" -> s

CategoryRank(tag) ==
    CASE tag = "Member" -> 1 [] tag = "Module" -> 2 [] tag = "Address" -> 3
      [] tag = "TypeParam" -> 4

(* The path-autocomplete diagnostic built from an alias table offers every *)
(* alias of the table exactly once (for either flavor of table), grouped   *)
(* members, modules, addresses, type parameters, and within a group in     *)
(* the order of the alias names: the spec's completeness and determinism.  *)
AutocompleteCandidates ==
    diag # None /\ table # None =>
        LET items == QuotedItems(diag.msg)
            names == table.names
        IN  /\ Len(items) = Cardinality(DOMAIN names)
            /\ \A s \in DOMAIN names : \E i \in DOMAIN items :
                  items[i] = CandidateText(s, names[s])
            /\ \A i, j \in DOMAIN items : \A s, t \in DOMAIN names :
                  i < j /\ items[i] = CandidateText(s, names[s])
                        /\ items[j] = CandidateText(t, names[t])
                  => \/ CategoryRank(names[s].tag) < CategoryRank(names[t].tag)
                     \/ CategoryRank(names[s].tag) = CategoryRank(names[t].tag)
                        /\ Rank(s) < Rank(t)

(* The notes of a macro call whose text starts with prefix p. *)
NotesWith(notes, p) ==
    {i \in DOMAIN notes : Len(notes[i]) >= Len(p) /\ SubSeq(notes[i], 1, Len(p)) = p}

(* The macro-call diagnostic (spec section 4.4) first names the macro,     *)
(* then reports, each at most once, conditionally and independently, and   *)
(* in this order: the method alias exactly when there is one, the type    *)
(* arguments exactly when there are some, and the receiver exactly when a  *)
(* by-value argument exists, naming the receiver (the first by-value       *)
(* argument) and no other.                                                 *)
MacroCallNotes ==
    diag # None /\ ann.kind = "MacroCallInfo" =>
        LET notes == diag.notes
            M == NotesWith(notes, "as method call ")
            T == NotesWith(notes, "Type arguments: ")
            S == NotesWith(notes, "Subject arg: ")
        IN  /\ notes[1] = "Called " \o ann.module \o "::" \o ann.name
            /\ Len(notes) = 1 + Cardinality(M) + Cardinality(T) + Cardinality(S)
            /\ Cardinality(M) = Len(ann.method_name)
            /\ (Cardinality(T) = 1) = (ann.type_arguments # << >>)
            /\ Cardinality(S) = IF ann.by_value_args = << >> THEN 0 ELSE 1
            /\ \A i \in S : notes[i] = "Subject arg: " \o ann.by_value_args[1]
            /\ \A i \in M, j \in T : i < j
            /\ \A j \in T, k \in S : j < k
            /\ \A i \in M, k \in S : i < k

(* The spec (section 8): "a named suggestion with an empty field list      *)
(* always renders empty braces `{ }`".                                     *)
NamedEmptyBraces ==
    diag # None /\ ann.kind = "MissingMatchArms" =>
        \A i \in DOMAIN ann.arms :
            ann.arms[i].kind \in {"UnpackNamedStruct", "UnpackNamedVariant"}
            /\ ann.arms[i].fields = << >>
            => QuotedItems(diag.msg)[i] = PathOf(ann.arms[i]) \o " { }"

(* The spec (section 8): for a macro call, "rendered message is            *)
(* `Called M::foo`" with the method, type-argument and subject notes.      *)
MacroCallMessage ==
    diag # None /\ ann.kind = "MacroCallInfo" =>
        diag.msg = "Called " \o ann.module \o "::" \o ann.name

=====
