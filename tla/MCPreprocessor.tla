--------------------------- MODULE MCPreprocessor ---------------------------
(***************************************************************************)
(* The preprocessor's four models side by side: in a behaviour files are   *)
(* read line by line (`half' = "lines"), the text of one file is expanded  *)
(* ("macros"), the characters of one are made tokens ("tokens"), or one    *)
(* literal gets its value ("literals"); the others stay where empty ones   *)
(* would be.                                                               *)
(***************************************************************************)
EXTENDS PPReference, MCMacros, LexReference, MCLiterals

VARIABLE half

(* Lines: one header and a main file that includes it twice, with the      *)
(* guard untouched, removed or defined in between.  The header is every    *)
(* sequence of up to three lines, and every guard-like sequence around and *)
(* after which two more lines stand.                                       *)
L(op, arg) == [op |-> op, arg |-> arg]

Guard == L("ifndef", "G")
Inc == L("include", "h")
Lines1 ==
  { L("text", 1), L("null", 0), L("define", "G"), L("undef", "G"),
    L("ifndef", "G"), L("ifdef", "G"), L("if", 0),
    L("else", 0), L("elif", 1), L("endif", 0), Inc, L("once", 0) }

Short == UNION {[1 .. k -> Lines1] : k \in 0 .. 3}
Guarded ==
  {<<Guard, L("define", "G"), a, L("endif", 0), b>> : a, b \in Lines1}
  \cup {<<a, Guard, L("define", "G"), b, L("endif", 0)>> : a, b \in Lines1}
  \cup {<<Guard, a, b, L("text", 1), L("endif", 0)>> : a, b \in Lines1}
  \cup {<<Guard, L("define", "G"), a, L("text", 1), b, L("endif", 0)>> : a, b \in Lines1}

Headers == Short \cup Guarded
Mains ==
  { <<Inc, x, Inc, L("text", 2)>> : x \in {L("text", 3), L("undef", "G"), L("define", "G")} }
  \cup { <<L("if", 1), Inc, L("else", 0), L("text", 2), L("endif", 0)>> }

NothingRead ==
  /\ content = [f \in File |-> << >>]
  /\ files = <<[name |-> Main, pos |-> 1, base |-> 0, guard |-> NoMacro,
                saved |-> NoMacro, prev_flags |-> {}, under |-> << >>]>>
  /\ ifdefs = << >> /\ skipping = 0 /\ flags = {"BOF"} /\ macros = {}
  /\ cache = [f \in File |-> [guard |-> NoMacro, once |-> FALSE]]
  /\ out = << >> /\ status = "done"

NothingExpanded ==
  /\ todo = << >> /\ defs = << >>
  /\ input = << >> /\ pp_expr = FALSE /\ stream = << >> /\ given = << >>
  /\ counter = 0 /\ aligned = TRUE /\ text = << >> /\ phase = "define"

NothingLexed ==
  /\ bf = Opened(<< >>, FALSE) /\ lexed = << >>
  /\ source = [text |-> << >>, strays |-> FALSE]

NothingWritten ==
  literal = [k |-> "str", s |-> << >>, of |-> << >>, wide |-> FALSE, pp |-> FALSE] /\ value = NoValue

(* Lexer: every text of up to three characters that mean something to one  *)
(* another, and longer ones in which something is interrupted by escaped   *)
(* newlines, cut everywhere.                                               *)
Interrupted ==
  { <<"L", "bs", "nl", "bs", "cr", "nl", "q", "q">>,
    <<"L", "bs", "cr", "a", ".", ".", "bs", "cr">>,
    <<".", "bs", "nl", ".", "bs", "nl", "1", "a">>,
    <<".", "bs", "nl", ".", "bs", "cr", "nl", ".">>,
    <<"1", "e", "bs", "nl", "+", "1", "+", "+">>,
    <<"/", "bs", "nl", "*", "*", "bs", "nl", "/">>,
    <<"/", "*", "*", "bs", "*", "nl", "*", "/">>,
    <<"/", "/", "bs", "nl", "a", "bs", "nl", "L">>,
    <<"q", "bs", "bs", "nl", "q", "cr", "q", "a">>,
    <<"q", "bs", "nl", "bs", "q", "q", "q", "a">> }
LexTexts ==
  Interrupted
    \cup UNION {[1 .. n -> {"a", "L", ".", "/", "*", "q", "bs", "nl", "cr", "="}] : n \in 1 .. 3}

MCInit ==
  /\ half \in {"lines", "macros", "tokens", "literals"}
  /\ IF half = "lines" THEN Init ELSE NothingRead
  /\ IF half = "macros" THEN MacroInit ELSE NothingExpanded
  /\ IF half = "tokens" THEN LexInit ELSE NothingLexed
  /\ IF half = "literals" THEN LiteralInit ELSE NothingWritten

ReadLine == half = "lines" /\ Next /\ UNCHANGED <<half, macro_vars, lex_vars, literal_vars>>
ReadToken == half = "macros" /\ MacroNext /\ UNCHANGED <<half, vars, lex_vars, literal_vars>>
Lex == half = "tokens" /\ NextToken /\ UNCHANGED <<half, vars, macro_vars, literal_vars>>
Evaluate1 == half = "literals" /\ Convert1 /\ UNCHANGED <<half, vars, macro_vars, lex_vars>>

all_vars == <<half, vars, macro_vars, lex_vars, literal_vars>>
MCSpec ==
  MCInit /\ [][ReadLine \/ ReadToken \/ Lex \/ Evaluate1]_all_vars /\ WF_vars(ReadLine)
=============================================================================
