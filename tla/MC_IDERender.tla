--------------------------- MODULE MC_IDERender ---------------------------
EXTENDS IDERender

MCSyms == {"x", "y"}
MCMIdents == {"0x1::m"}
MCMembers == {"f"}
MCAddrs == {"0x1"}
MCTypes == {"T", "U"}
MCExps == {"e", "f"}

(* Byte order: digits before lower-case letters. *)
MCIdentOrder == << "0x1", "0x1::m", "f", "x", "y" >>

(* Field lists and counts up to two: none, one, and a separator. *)
MCFieldLists == {<< >>, << "a" >>, << "a", "b" >>}

MCPatterns ==
    {[kind |-> "Wildcard"], [kind |-> "Binder", name |-> "x"],
     [kind |-> "Value", value |-> "0"],
     [kind |-> "UnpackEmptyVariant", module |-> "0x1::m", enum_name |-> "E",
      variant_name |-> "V"]}
    \cup {[kind |-> "UnpackPositionalStruct", module |-> "0x1::m", name |-> "S",
           field_count |-> n] : n \in 0..2}
    \cup {[kind |-> "UnpackPositionalVariant", module |-> "0x1::m", enum_name |-> "E",
           variant_name |-> "V", field_count |-> n] : n \in 0..2}
    \cup {[kind |-> "UnpackNamedStruct", module |-> "0x1::m", name |-> "S",
           fields |-> fs] : fs \in MCFieldLists}
    \cup {[kind |-> "UnpackNamedVariant", module |-> "0x1::m", enum_name |-> "E",
           variant_name |-> "V", fields |-> fs] : fs \in MCFieldLists}

(* One, two or three missing arms: the three forms of the Oxford list. *)
MCArmLists ==
    {<< p >> : p \in MCPatterns} \cup {<< p, q >> : p, q \in MCPatterns}
    \cup {<< p, [kind |-> "Wildcard"], q >> :
             p \in MCPatterns, q \in {[kind |-> "Binder", name |-> "x"]}}

MCAnnotations ==
    {[kind |-> "MissingMatchArms", arms |-> as] : as \in MCArmLists}
    \cup {[kind |-> "MacroCallInfo", module |-> "0x1::m", name |-> "foo",
           method_name |-> mn, type_arguments |-> ta, by_value_args |-> bv] :
             mn \in {<< >>, << "foo" >>},
             ta \in {<< >>, << "T" >>, << "T", "U" >>},
             bv \in {<< >>, << "e" >>, << "e", "f" >>}}
    \cup {[kind |-> "ExpandedLambda"]}
    \cup {[kind |-> "DotAutocompleteInfo", methods |-> ms, fields |-> fs] :
             ms \in {<< >>, << [method_name |-> "foo", target_function |-> << "0x1::m", "foo" >>] >>},
             fs \in {<< >>, << << "a", "T" >> >>, << << "a", "T" >>, << "b", "U" >> >>}}
    \cup {[kind |-> "EllipsisMatchEntries", variant |-> k, entries |-> es] :
             k \in {"Positional", "Named"}, es \in {<< >>, << "a" >>, << "a", "b" >>}}
=============================================================================
