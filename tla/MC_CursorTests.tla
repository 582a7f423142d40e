--------------------------- MODULE MC_CursorTests ---------------------------
EXTENDS CursorTests

(* The posn_pairs list of generate_cursor_test, cursor_tests.rs:123-145. *)
MCPosnPairs == <<
    <<5, 23, "at a struct definition name">>,
    <<6, 13, "at a struct field name">>,
    <<6, 19, "in a struct definition at nowhere in particular">>,
    <<6, 20, "at a struct field type">>,
    <<6, 21, "at a struct field type">>,
    <<6, 22, "at a struct field type">>,
    <<6, 23, "in a struct definition at nowhere in particular">>,
    <<17, 45, "at a function return type">>,
    <<28, 14, "at a function definition at nowhere in particular">>,
    <<28, 14, "at a function definition name">>,
    <<28, 15, "at a function definition name">>,
    <<28, 16, "at a function definition name">>,
    <<28, 17, "at a function definition name">>,
    <<28, 18, "at a function definition at nowhere in particular">>,
    <<28, 19, "at a function definition at nowhere in particular">>,
    <<31, 5, "inside a function body -- unknown">>,
    <<31, 9, "let binding">>,
    <<31, 19, "binding in the lhs of a let-binding">>,
    <<31, 50, "name in module access">>,
    <<33, 29, "name in a dot call">>,
    <<33, 34, "equal sign in a binop">> >>

(* The cursor context at a position, as an opaque value of the position;  *)
(* one position of the batch is taken to have none, so that a test panics. *)
MCContextAt(l, c) == IF <<l, c>> = <<28, 16>> THEN NoContext ELSE <<"context", l, c>>

(* A shorter batch for the harness run: five entries, four files, one of *)
(* them written twice; enough for every outcome of check_expected.        *)
MCSmallPairs == SubSeq(MCPosnPairs, 8, 12)
=============================================================================
