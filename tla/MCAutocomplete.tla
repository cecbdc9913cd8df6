--------------------------- MODULE MCAutocomplete ---------------------------
(* Both boxes of the page, over four texts: a name that is a prefix of     *)
(* another, and one with a character regular expressions give a meaning.   *)
EXTENDS Autocomplete, Adapters

MCTexts         == {"", "a", "a(", "A("}
MCLower         == [t \in MCTexts |-> IF t = "A(" THEN "a(" ELSE t]
MCStartsWith    == {<<q, p>> \in MCTexts \X MCTexts : p \in {q, ""} \/ <<q, p>> = <<"a(", "a">>}
MCUnformattable == {"a(", "A("}

Entry(n, h, k) == [name |-> n, hash |-> h, kinds |-> k]
Plain          == Entry("a", 1, <<"Var">>)
Operator       == Entry("A(", 2, <<"Function", "CXXMethod">>)
MCEntries      == [q \in MCTexts |->
                     CASE q = ""   -> {}
                       [] q = "a"  -> {Missing, <<Plain, Operator>>}
                       [] q = "a(" -> {<<Operator>>}
                       [] q = "A(" -> {<<Entry("A(", 2, <<"Function">>)>>}]

File(n, d, f)  == [name |-> n, dir |-> d, file |-> f, href |-> f]
MCFiles        == [q \in MCTexts |->
                     CASE q = ""   -> {}
                       [] q = "a"  -> {<<File(Missing, "a", 1), File("A(", Missing, 3)>>,
                                       <<File("A(", Missing, 3)>>}
                       [] q = "a(" -> {Missing}
                       [] q = "A(" -> {<<File("A(", Missing, 3)>>}]

\* The box for symbols and the box for files (local.js).
SymbolOptions == [deferRequestBy |-> TRUE, autoSelectFirst |-> TRUE,
                  triggerSelectOnValidInput |-> FALSE, escapes |-> FALSE]
FileOptions   == [deferRequestBy |-> TRUE, autoSelectFirst |-> FALSE,
                  triggerSelectOnValidInput |-> TRUE, escapes |-> TRUE]
MCOptions     == {SymbolOptions, FileOptions}

MCAnswersTo   == [o \in MCOptions |-> [q \in MCTexts |->
                    IF o = SymbolOptions THEN {AdaptSymbolResult(e) : e \in MCEntries[q]}
                    ELSE {AdaptFileResult(f) : f \in MCFiles[q]}]]
MCSuggestions == UNION {{r[i] : i \in DOMAIN r} :
                    r \in UNION {MCAnswersTo[o][q] : o \in MCOptions, q \in MCTexts}}
MCValueOf     == [s \in MCSuggestions |-> s.value]
=============================================================================
