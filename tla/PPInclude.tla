------------------------------ MODULE PPInclude ------------------------------
(***************************************************************************)
(* Conditional and file inclusion in tccpp.c: the #if stack all files      *)
(* share, the include stack, and the cache that lets #include skip a file  *)
(* whose guard macro is defined or that said #pragma once.                 *)
(*                                                                         *)
(* A file is a sequence of lines: text, a null directive, or a directive.  *)
(* One step handles one line, as one round of next_nomacro() does.  The    *)
(* guard of a file is recognised by flags: TOK_FLAG_BOF survives only null *)
(* directives and blank lines, TOK_FLAG_ENDIF likewise, so the flags say   *)
(* "nothing before this #ifndef" and "nothing after this #endif".          *)
(***************************************************************************)
EXTENDS Naturals, Sequences, SequencesExt

CONSTANTS
  File,         \* file names
  Main,         \* the one tcc_compile() opens
  Macro,        \* names of macros
  NoMacro,      \* ifndef_macro = 0
  Contents,     \* what a file may hold: a set of sequences of lines
  MainContents, \* what the main file may hold
  IFDEF_STACK_SIZE,   \* 64
  INCLUDE_STACK_SIZE  \* 32

Text == [op : {"text"}, arg : Nat]
Directive ==
  [op : {"define", "undef", "ifdef", "ifndef"}, arg : Macro]
    \cup [op : {"if", "elif"}, arg : {0, 1}]
    \cup [op : {"include"}, arg : File]
    \cup [op : {"else", "endif", "once", "null"}, arg : {0}]
Line == Text \cup Directive

ASSUME PPAssumption ==
  /\ Main \in File /\ NoMacro \notin Macro
  /\ Contents \subseteq Seq(Line) /\ MainContents \subseteq Seq(Line)
  /\ IFDEF_STACK_SIZE \in Nat /\ INCLUDE_STACK_SIZE \in Nat

VARIABLES
  content,   \* the files, fixed
  files,     \* include stack, the current file last
  ifdefs,    \* s1->ifdef_stack: 0 no branch yet, 1 in a taken branch,
             \* 2 and 3 the same after #else
  skipping,  \* 0, or 1 + a in preprocess_skip()
  flags,     \* tok_flags, without TOK_FLAG_BOL
  macros,    \* the macros defined
  cache,     \* s1->cached_includes
  out,       \* the text that got through
  status     \* "run", "done" or "error"

vars == <<content, files, ifdefs, skipping, flags, macros, cache, out, status>>

\* tcc_open_bf().  `under' is history: the #if stack the file was opened with.
Open(f) ==
  [name |-> f, pos |-> 1, base |-> Len(ifdefs), guard |-> NoMacro,
   saved |-> NoMacro, prev_flags |-> {}, under |-> ifdefs]

Init ==
  /\ content \in [File -> Contents \cup MainContents]
  /\ content[Main] \in MainContents
  /\ \A f \in File \ {Main} : content[f] \in Contents
  /\ ifdefs = << >>
  /\ files = <<[name |-> Main, pos |-> 1, base |-> 0, guard |-> NoMacro,
                saved |-> NoMacro, prev_flags |-> {}, under |-> << >>]>>
  /\ skipping = 0
  /\ flags = {"BOF"}
  /\ macros = {}
  /\ cache = [f \in File |-> [guard |-> NoMacro, once |-> FALSE]]
  /\ out = << >>
  /\ status = "run"

file == Last(files)
AtEnd == file.pos > Len(content[file.name])
line == content[file.name][file.pos]
is_bof == "BOF" \in flags

\* A step that changes the current file's fields by g and goes to its next line.
Advance(g) ==
  files' = [files EXCEPT ![Len(files)] = [g EXCEPT !.pos = @ + 1]]

Error ==
  /\ status' = "error"
  /\ UNCHANGED <<content, files, ifdefs, skipping, flags, macros, cache, out>>

\* Reading a line that is not skipped, of kind o.
Reading(o) == status = "run" /\ skipping = 0 /\ ~ AtEnd /\ line.op = o
\* The same, or the line that ends a skipped group at its own level.
Branching(o) == status = "run" /\ skipping \in {0, 1} /\ ~ AtEnd /\ line.op = o

\* test_skip: enter preprocess_skip() unless the group is taken.
Test(c) == skipping' = IF c % 2 = 1 THEN 0 ELSE 1
-----------------------------------------------------------------------------
\* Any token clears tok_flags, which ends both "at the beginning" and "after
\* the #endif".
ReadText ==
  /\ Reading("text")
  /\ out' = Append(out, line.arg)
  /\ flags' = {}
  /\ Advance(file)
  /\ UNCHANGED <<content, ifdefs, skipping, macros, cache, status>>

\* Seeded bug: the line is read again and again.
ReadNull_Stuck ==
  /\ Reading("null")
  /\ UNCHANGED vars

\* '#' alone: no token is read but the newline, the flags stay.
ReadNull ==
  /\ Reading("null")
  /\ Advance(file)
  /\ UNCHANGED <<content, ifdefs, skipping, flags, macros, cache, out, status>>

ReadDefine ==
  /\ \/ Reading("define") /\ macros' = macros \cup {line.arg}
     \/ Reading("undef") /\ macros' = macros \ {line.arg}
  /\ flags' = {}
  /\ Advance(file)
  /\ UNCHANGED <<content, ifdefs, skipping, cache, out, status>>

\* #pragma once: pragma_parse() marks the file's cache entry.
ReadOnce ==
  /\ Reading("once")
  /\ cache' = [cache EXCEPT ![file.name].once = TRUE]
  /\ flags' = {}
  /\ Advance(file)
  /\ UNCHANGED <<content, ifdefs, skipping, macros, out, status>>

\* #if, #ifdef, #ifndef.  An #ifndef at the beginning of the file makes its
\* macro the candidate for the file's guard.
ReadIf ==
  LET c == CASE line.op = "if" -> line.arg
             [] line.op = "ifdef" -> IF line.arg \in macros THEN 1 ELSE 0
             [] line.op = "ifndef" -> IF line.arg \in macros THEN 0 ELSE 1
  IN
  /\ Reading("if") \/ Reading("ifdef") \/ Reading("ifndef")
  /\ IF Len(ifdefs) >= IFDEF_STACK_SIZE
     THEN Error
     ELSE /\ ifdefs' = Append(ifdefs, c)
          /\ Test(c)
          /\ Advance(IF is_bof /\ line.op = "ifndef"
                     THEN [file EXCEPT !.guard = line.arg] ELSE file)
          /\ flags' = {}
          /\ UNCHANGED <<content, macros, cache, out, status>>

\* Seeded bug: an alternative to the guarded group goes unnoticed.
DropGuard_Never == file

\* test_else: an alternative at the level of the guard means it is none.
DropGuard ==
  IF Len(ifdefs) = file.base + 1 THEN [file EXCEPT !.guard = NoMacro] ELSE file

\* #else.  The check is against the bottom of the stack all files share.
ReadElse ==
  LET top == Last(ifdefs) IN
  /\ Branching("else")
  /\ IF ifdefs = << >> \/ top \in {2, 3}
     THEN Error
     ELSE /\ ifdefs' = [ifdefs EXCEPT ![Len(ifdefs)] = 3 - top]
          /\ Test(3 - top)
          /\ Advance(DropGuard)
          /\ flags' = {}
          /\ UNCHANGED <<content, macros, cache, out, status>>

\* #elif.  After a taken group the condition is not even evaluated.
ReadElif ==
  LET top == Last(ifdefs) IN
  /\ Branching("elif")
  /\ IF ifdefs = << >> \/ top > 1
     THEN Error
     ELSE /\ ifdefs' = IF top = 1 THEN ifdefs
                       ELSE [ifdefs EXCEPT ![Len(ifdefs)] = line.arg]
          /\ Test(IF top = 1 THEN 0 ELSE line.arg)
          /\ Advance(DropGuard)
          /\ flags' = {}
          /\ UNCHANGED <<content, macros, cache, out, status>>

\* Seeded bug: #endif may close a group of the including file.
ReadEndif_AnyLevel ==
  LET closes == file.guard # NoMacro /\ Len(ifdefs) = file.base + 1 IN
  /\ Branching("endif")
  /\ IF ifdefs = << >>
     THEN Error
     ELSE /\ ifdefs' = Front(ifdefs)
          /\ skipping' = 0
          /\ flags' = IF closes THEN {"ENDIF"} ELSE {}
          /\ Advance(IF closes
                     THEN [file EXCEPT !.saved = file.guard, !.guard = NoMacro]
                     ELSE file)
          /\ UNCHANGED <<content, macros, cache, out, status>>

\* #endif.  When it closes the candidate guard the file may be guarded: so far
\* nothing follows.
ReadEndif ==
  LET closes == file.guard # NoMacro /\ Len(ifdefs) = file.base + 1 IN
  /\ Branching("endif")
  /\ IF Len(ifdefs) <= file.base
     THEN Error
     ELSE /\ ifdefs' = Front(ifdefs)
          /\ skipping' = 0
          /\ flags' = IF closes THEN {"ENDIF"} ELSE {}
          /\ Advance(IF closes
                     THEN [file EXCEPT !.saved = file.guard, !.guard = NoMacro]
                     ELSE file)
          /\ UNCHANGED <<content, macros, cache, out, status>>

\* preprocess_skip(): one line of a group that is left out.
Skip ==
  /\ status = "run" /\ skipping > 0 /\ ~ AtEnd
  /\ ~ (skipping = 1 /\ line.op \in {"else", "elif", "endif"})
  /\ skipping' = CASE line.op \in {"if", "ifdef", "ifndef"} -> skipping + 1
                   [] line.op = "endif" -> skipping - 1
                   [] OTHER -> skipping
  /\ Advance(file)
  /\ UNCHANGED <<content, ifdefs, flags, macros, cache, out, status>>

\* #include: parse_include() skips a cached file, else opens it.
ReadInclude ==
  LET e == cache[line.arg] IN
  /\ Reading("include")
  /\ IF e.once \/ e.guard \in macros
     THEN /\ Advance(file)
          /\ flags' = {}
          /\ UNCHANGED <<content, ifdefs, skipping, macros, cache, out, status>>
     ELSE IF Len(files) > INCLUDE_STACK_SIZE
     THEN Error
     ELSE /\ files' = Append([files EXCEPT ![Len(files)].pos = @ + 1],
                             Open(line.arg))
          /\ flags' = {"BOF"}
          /\ UNCHANGED <<content, ifdefs, skipping, macros, cache, out, status>>

\* End of file: with all conditionals of the file closed, return to the file
\* that included it; a guard nothing followed is remembered.
EndOfFile ==
  /\ status = "run" /\ AtEnd
  /\ IF skipping > 0 \/ Len(ifdefs) # file.base
     THEN Error
     ELSE IF Len(files) = 1
     THEN /\ status' = "done"
          /\ UNCHANGED <<content, files, ifdefs, skipping, flags, macros, cache, out>>
     ELSE /\ cache' = IF "ENDIF" \in flags
                      THEN [cache EXCEPT ![file.name].guard = file.saved]
                      ELSE cache
          /\ files' = Front(files)
          /\ flags' = file.prev_flags
          /\ UNCHANGED <<content, ifdefs, skipping, macros, out, status>>

Next ==
  \/ ReadText \/ ReadNull \/ ReadDefine \/ ReadOnce \/ ReadIf \/ ReadElse
  \/ ReadElif \/ ReadEndif \/ Skip \/ ReadInclude \/ EndOfFile

Spec == Init /\ [][Next]_vars /\ WF_vars(Next)
-----------------------------------------------------------------------------
\* A file that is closed without an error leaves the #if stack of its includer
\* as it found it, branch states included, although #else and #elif look only
\* at the bottom of the stack all files share.
IncluderUntouched ==
  [][Len(files') < Len(files) => ifdefs' = file.under]_vars

\* Whatever the files include, one another or themselves, preprocessing ends.
Terminates == <>(status # "run")
=============================================================================
