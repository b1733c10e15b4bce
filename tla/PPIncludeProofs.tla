--------------------------- MODULE PPIncludeProofs ---------------------------
(***************************************************************************)
(* Proofs about PPInclude: an included file leaves the #if stack of its    *)
(* includer as it found it.                                                *)
(*                                                                         *)
(* It need not seem so: #else and #elif look at the bottom of the stack    *)
(* all files share, not at that of the file, and an #else before any #if   *)
(* of its file does change the entry of the includer.  The invariant says  *)
(* why no file ends like that.  The groups in force when a file is opened  *)
(* are all taken, so the entry was 1, it is 2 after the #else, the rest of *)
(* the file is skipped, and every line that could end the skipping is an   *)
(* error there.                                                            *)
(***************************************************************************)
EXTENDS PPInclude, SequenceTheorems, TLAPS

\* A file on the include stack.
Frame ==
  [name : File, pos : Nat \ {0}, base : Nat, guard : Macro \cup {NoMacro}, saved : Macro \cup {NoMacro},
   prev_flags : {{}}, under : Seq(0 .. 3)]

IncludeTypes ==
  /\ content \in [File -> Seq(Line)]
  /\ files \in Seq(Frame) /\ files # << >>
  /\ ifdefs \in Seq(0 .. 3) /\ skipping \in Nat

\* Every group of the stack is taken.
AllTaken(s) == \A i \in 1 .. Len(s) : s[i] \in {1, 3}

\* t goes on where s ends.
GoesOn(t, s) == Len(s) <= Len(t) /\ \A i \in 1 .. Len(s) : t[i] = s[i]

\* Each file was opened in taken groups only, with those of its includer at the
\* bottom.
Nested(fs) ==
  /\ \A k \in 1 .. Len(fs) : fs[k].base = Len(fs[k].under) /\ AllTaken(fs[k].under)
  /\ \A k \in 1 .. Len(fs) - 1 : GoesOn(fs[k + 1].under, fs[k].under)

\* An #else of the current file has changed the entry of its includer; what is
\* left of the file is skipped.
Spoiled(s, under, skip) ==
  /\ Len(s) = Len(under) /\ Len(under) > 0 /\ skip > 0
  /\ s[Len(s)] = 2

\* All groups are taken but the last one, and that one too unless it is skipped.
Taken(s, skip) ==
  \A i \in 1 .. Len(s) : i < Len(s) \/ skip = 0 => s[i] \in {1, 3}

IncludeInv ==
  /\ IncludeTypes
  /\ Nested(files)
  /\ GoesOn(ifdefs, file.under) \/ Spoiled(ifdefs, file.under, skipping)
  /\ Taken(ifdefs, skipping)
-----------------------------------------------------------------------------
\* What the arguments of a line can be.
LEMMA LineArgs ==
  ASSUME NEW l \in Line
  PROVE  /\ l.op \in {"if", "elif"} => l.arg \in {0, 1}
         /\ l.op \in {"ifdef", "ifndef"} => l.arg \in Macro
         /\ l.op = "include" => l.arg \in File
BY DEF Line, Text, Directive

\* The line that is read is one.
LEMMA LineRead == IncludeTypes /\ ~ AtEnd => line \in Line /\ file \in Frame
<1> SUFFICES ASSUME IncludeTypes, ~ AtEnd PROVE line \in Line /\ file \in Frame
  OBVIOUS
<1> DEFINE D == Frame
<1>1. files \in Seq(D) /\ files # << >>
  BY DEF IncludeTypes
<1> HIDE DEF D
<1>2. file \in D /\ file = files[Len(files)]
  BY <1>1 DEF file, Last
<1>3. file.name \in File /\ file.pos \in Nat \ {0}
  BY <1>2 DEF D, Frame
<1>4. content[file.name] \in Seq(Line)
  BY <1>3 DEF IncludeTypes
<1> DEFINE c == content[file.name]
<1> HIDE DEF c
<1>5. c \in Seq(Line) /\ ~ (file.pos > Len(c))
  BY <1>4 DEF AtEnd, c
<1>6. c[file.pos] \in Line
  BY <1>3, <1>5
<1> QED
  BY <1>2, <1>6 DEF line, D, c

\* The files on the stack, seen as what matters here of each.
LEMMA FramesAre ==
  ASSUME IncludeTypes
  PROVE  /\ Len(files) \in Nat \ {0} /\ file = files[Len(files)]
         /\ \A k \in 1 .. Len(files) : /\ files[k] \in Frame /\ files[k].under \in Seq(0 .. 3)
                                       /\ Len(files[k].under) \in Nat
<1> DEFINE D == Frame
<1>1. files \in Seq(D) /\ files # << >>
  BY DEF IncludeTypes
<1>2. \A f \in D : f.under \in Seq(0 .. 3)
  BY DEF Frame
<1> HIDE DEF D
<1>3. Len(files) \in Nat \ {0} /\ file = files[Len(files)] /\ \A k \in 1 .. Len(files) : files[k] \in D
  BY <1>1 DEF file, Last
<1> QED
  BY <1>2, <1>3 DEF D

\* A step to the next line keeps the stack of files and what each was opened in.
LEMMA AdvanceKeeps ==
  ASSUME IncludeTypes, Nested(files), NEW g \in Frame, g.base = file.base, g.under = file.under, Advance(g)
  PROVE  /\ files' \in Seq(Frame) /\ files' # << >> /\ Len(files') = Len(files)
         /\ Nested(files') /\ file'.base = file.base /\ file'.under = file.under
<1> DEFINE D == Frame
           r == [g EXCEPT !.pos = @ + 1]
           fs == files'
           n == Len(files)
<1>1. files \in Seq(D) /\ n \in Nat \ {0} /\ file = files[n]
  BY FramesAre DEF IncludeTypes
<1>2. r \in D /\ r.base = file.base /\ r.under = file.under
  BY DEF Frame
<1>3. fs = [files EXCEPT ![n] = r]
  BY DEF Advance
<1> HIDE DEF D, r, n
<1>4. /\ fs \in Seq(D) /\ Len(fs) = Len(files)
      /\ \A k \in 1 .. Len(files) : fs[k] = IF k = n THEN r ELSE files[k]
  BY <1>1, <1>2, <1>3, ExceptSeq DEF n
<1> HIDE DEF fs
<1>5. \A k \in 1 .. Len(files) : fs[k].base = files[k].base /\ fs[k].under = files[k].under
  BY <1>1, <1>2, <1>4
<1>6. fs # << >> /\ Len(files) \in Nat
  BY <1>1, <1>4 DEF n
<1>7. Last(fs) = fs[n]
  BY <1>4 DEF Last, n
<1>8. Last(fs).base = file.base /\ Last(fs).under = file.under
  BY <1>1, <1>5, <1>7 DEF n
<1>9. Nested(fs)
  <2>1. \A k \in 1 .. Len(files) - 1 : k \in 1 .. Len(files) /\ k + 1 \in 1 .. Len(files)
    BY <1>6
  <2> QED
    BY <2>1, <1>4, <1>5 DEF Nested
<1> QED
  BY <1>4, <1>6, <1>8, <1>9 DEF fs, D, file

\* What follows of the invariant from a step to the next line, for the stack of
\* #if groups it leaves.
LEMMA NextLine ==
  ASSUME IncludeInv, NEW g \in Frame, g.base = file.base, g.under = file.under, Advance(g),
         content' = content, ifdefs' \in Seq(0 .. 3), skipping' \in Nat,
         GoesOn(ifdefs', file.under) \/ Spoiled(ifdefs', file.under, skipping'),
         Taken(ifdefs', skipping')
  PROVE  IncludeInv' /\ Len(files') = Len(files)
<1>1. /\ files' \in Seq(Frame) /\ files' # << >> /\ Len(files') = Len(files)
      /\ Nested(files') /\ file'.under = file.under
  BY AdvanceKeeps DEF IncludeInv
<1> QED
  BY <1>1 DEF IncludeInv, IncludeTypes

\* A line that leaves the groups alone.
LEMMA SameGroups ==
  ASSUME IncludeInv, NEW g \in Frame, g.base = file.base, g.under = file.under, Advance(g),
         UNCHANGED <<content, ifdefs>>,
         skipping' = skipping \/ (skipping > 0 /\ skipping' > 0 /\ skipping' \in Nat)
  PROVE  IncludeInv' /\ Len(files') = Len(files)
<1>1. skipping \in Nat /\ ifdefs \in Seq(0 .. 3)
  BY DEF IncludeInv, IncludeTypes
<1>2. GoesOn(ifdefs, file.under) \/ Spoiled(ifdefs, file.under, skipping')
  BY <1>1 DEF IncludeInv, Spoiled
<1>3. Taken(ifdefs, skipping')
  BY <1>1 DEF IncludeInv, Taken
<1> QED
  BY <1>1, <1>2, <1>3, NextLine

\* The bottom of the current file's groups.
LEMMA BaseIs == IncludeInv => /\ file.base = Len(file.under) /\ file \in Frame /\ AllTaken(file.under)
                              /\ file.under \in Seq(0 .. 3) /\ file.base \in Nat
<1> SUFFICES ASSUME IncludeInv
             PROVE  /\ file.base = Len(file.under) /\ file \in Frame /\ AllTaken(file.under)
                    /\ file.under \in Seq(0 .. 3) /\ file.base \in Nat
  OBVIOUS
<1>1. /\ Len(files) \in Nat \ {0} /\ file = files[Len(files)]
      /\ \A k \in 1 .. Len(files) : /\ files[k] \in Frame /\ files[k].under \in Seq(0 .. 3)
                                    /\ Len(files[k].under) \in Nat
  BY FramesAre DEF IncludeInv
<1>2. \A k \in 1 .. Len(files) : files[k].base = Len(files[k].under) /\ AllTaken(files[k].under)
  BY DEF IncludeInv, Nested
<1>3. Len(files) \in 1 .. Len(files)
  BY <1>1
<1> QED
  BY <1>1, <1>2, <1>3

\* At the bottom of its own groups, a file that has not gone wrong meets the
\* last group of its includer, which is taken.
LEMMA AtBase ==
  ASSUME IncludeInv, Len(ifdefs) = file.base, ifdefs # << >>
  PROVE  \/ GoesOn(ifdefs, file.under) /\ ifdefs[Len(ifdefs)] \in {1, 3}
         \/ ifdefs[Len(ifdefs)] = 2 /\ skipping > 0
<1>1. /\ file.base = Len(file.under) /\ AllTaken(file.under) /\ file.under \in Seq(0 .. 3)
      /\ ifdefs \in Seq(0 .. 3)
  BY BaseIs DEF IncludeInv, IncludeTypes
<1>2. Len(ifdefs) \in 1 .. Len(ifdefs) /\ Len(ifdefs) = Len(file.under)
  BY <1>1
<1>3. CASE GoesOn(ifdefs, file.under)
  BY <1>1, <1>2, <1>3 DEF GoesOn, AllTaken
<1>4. CASE Spoiled(ifdefs, file.under, skipping)
  BY <1>4 DEF Spoiled
<1> QED
  BY <1>3, <1>4 DEF IncludeInv
-----------------------------------------------------------------------------
\* A new group, in a part of the file that is read.
LEMMA IfKeeps == IncludeInv /\ ReadIf => IncludeInv' /\ Len(files') = Len(files)
<1> DEFINE c == CASE line.op = "if" -> line.arg
                  [] line.op = "ifdef" -> IF line.arg \in macros THEN 1 ELSE 0
                  [] line.op = "ifndef" -> IF line.arg \in macros THEN 0 ELSE 1
           g == IF is_bof /\ line.op = "ifndef" THEN [file EXCEPT !.guard = line.arg] ELSE file
<1> SUFFICES ASSUME IncludeInv, ReadIf PROVE IncludeInv' /\ Len(files') = Len(files)
  OBVIOUS
<1>1. CASE Error
  BY <1>1 DEF Error, IncludeInv, IncludeTypes, Nested, file
<1>2. CASE ~ Error
  <2>1. /\ skipping = 0 /\ line.op \in {"if", "ifdef", "ifndef"} /\ ~ AtEnd
        /\ ifdefs' = Append(ifdefs, c) /\ Test(c) /\ Advance(g) /\ content' = content
    BY <1>2 DEF ReadIf, Reading
  <2>2. line \in Line /\ file \in Frame /\ ifdefs \in Seq(0 .. 3)
    BY <2>1, LineRead DEF IncludeInv, IncludeTypes
  <2>3. c \in {0, 1}
    BY <2>1, <2>2, LineArgs
  <2>4. g \in Frame /\ g.base = file.base /\ g.under = file.under
    BY <2>1, <2>2, LineArgs DEF Frame
  <2> HIDE DEF c, g
  <2>5. /\ ifdefs' \in Seq(0 .. 3) /\ Len(ifdefs') = Len(ifdefs) + 1
        /\ \A i \in 1 .. Len(ifdefs) : ifdefs'[i] = ifdefs[i]
        /\ ifdefs'[Len(ifdefs) + 1] = c
    BY <2>1, <2>2, <2>3
  <2>6. skipping' \in {0, 1} /\ (skipping' = 0 => c = 1)
    BY <2>1, <2>3 DEF Test
  <2>7. GoesOn(ifdefs, file.under)
    BY <2>1 DEF IncludeInv, Spoiled
  <2>8. GoesOn(ifdefs', file.under)
    BY <2>2, <2>5, <2>7, BaseIs DEF GoesOn
  <2>9. Taken(ifdefs', skipping')
    <3>1. \A i \in 1 .. Len(ifdefs) : ifdefs'[i] \in {1, 3}
      BY <2>1, <2>5 DEF IncludeInv, Taken
    <3>2. \A i \in 1 .. Len(ifdefs) + 1 : i \in 1 .. Len(ifdefs) \/ i = Len(ifdefs) + 1
      BY <2>2
    <3> QED
      BY <3>1, <3>2, <2>2, <2>5, <2>6 DEF Taken
  <2> QED
    BY <2>1, <2>4, <2>5, <2>6, <2>8, <2>9, NextLine
<1> QED
  BY <1>1, <1>2

\* The last group has its state changed to t, as #else and #elif do it.
Altered(s, t, s2) == s2 = [s EXCEPT ![Len(s)] = t]

\* Which keeps the invariant unless the group read becomes one of the includer.
LEMMA AlterKeeps ==
  ASSUME IncludeInv, ifdefs # << >>, NEW t \in 0 .. 3, Altered(ifdefs, t, ifdefs'),
         skipping' \in {0, 1}, skipping' = 0 => t \in {1, 3},
         Len(ifdefs) = file.base => t = 2 /\ skipping' = 1,
         NEW g \in Frame, g.base = file.base, g.under = file.under, Advance(g), content' = content
  PROVE  IncludeInv' /\ Len(files') = Len(files)
<1> DEFINE n == Len(ifdefs)
           s == ifdefs'
<1>1. /\ ifdefs \in Seq(0 .. 3) /\ n \in Nat \ {0} /\ n \in 1 .. n /\ s = [ifdefs EXCEPT ![n] = t]
      /\ file.base = Len(file.under) /\ file.base \in Nat
  BY BaseIs DEF IncludeInv, IncludeTypes, Altered
<1>2. s \in Seq(0 .. 3) /\ Len(s) = n /\ \A i \in 1 .. n : s[i] = IF i = n THEN t ELSE ifdefs[i]
  BY <1>1, ExceptSeq
<1> HIDE DEF s
<1>3. Taken(s, skipping')
  <2>1. \A i \in 1 .. n : i < n => ifdefs[i] \in {1, 3}
    BY DEF IncludeInv, Taken
  <2>2. \A i \in 1 .. n : i < n => s[i] \in {1, 3}
    <3> HIDE DEF n
    <3> QED
      BY <2>1, <1>1, <1>2
  <2>3. skipping' = 0 => s[n] \in {1, 3}
    BY <1>1, <1>2
  <2>4. \A i \in 1 .. n : i < n \/ i = n
    BY <1>1
  <2> QED
    BY <2>2, <2>3, <2>4, <1>2 DEF Taken
<1>4. GoesOn(s, file.under) \/ Spoiled(s, file.under, skipping')
  <2>1. CASE n = file.base
    BY <2>1, <1>1, <1>2 DEF Spoiled
  <2>2. CASE n # file.base
    <3>1. GoesOn(ifdefs, file.under)
      BY <2>2, <1>1 DEF IncludeInv, Spoiled
    <3>2. \A i \in 1 .. Len(file.under) : i \in 1 .. n /\ i # n
      BY <2>2, <3>1, <1>1 DEF GoesOn
    <3> QED
      BY <3>1, <3>2, <1>2 DEF GoesOn
  <2> QED
    BY <2>1, <2>2
<1>5. /\ ifdefs' \in Seq(0 .. 3) /\ skipping' \in Nat /\ Taken(ifdefs', skipping')
      /\ GoesOn(ifdefs', file.under) \/ Spoiled(ifdefs', file.under, skipping')
  BY <1>2, <1>3, <1>4 DEF s
<1> QED
  BY <1>5, NextLine

\* What becomes of the guard at an alternative.
LEMMA DropGuardIs ==
  IncludeInv => DropGuard \in Frame /\ DropGuard.base = file.base /\ DropGuard.under = file.under
BY BaseIs DEF DropGuard, Frame

\* #else at the level of the includer spoils its entry, and the rest is skipped.
LEMMA ElseKeeps == IncludeInv /\ ReadElse => IncludeInv' /\ Len(files') = Len(files)
<1> DEFINE top == Last(ifdefs)
<1> SUFFICES ASSUME IncludeInv, ReadElse PROVE IncludeInv' /\ Len(files') = Len(files)
  OBVIOUS
<1>1. CASE Error
  BY <1>1 DEF Error, IncludeInv, IncludeTypes, Nested, file
<1>2. CASE ~ Error
  <2>1. /\ ifdefs # << >> /\ top \notin {2, 3} /\ skipping \in {0, 1}
        /\ ifdefs' = [ifdefs EXCEPT ![Len(ifdefs)] = 3 - top] /\ Test(3 - top)
        /\ Advance(DropGuard) /\ content' = content
    BY <1>2 DEF ReadElse, Branching
  <2>2. top = ifdefs[Len(ifdefs)] /\ top \in {0, 1} /\ ifdefs \in Seq(0 .. 3)
    BY <2>1 DEF IncludeInv, IncludeTypes, Last
  <2> DEFINE t == 3 - top
  <2>3. t \in {2, 3} /\ skipping' = IF t = 3 THEN 0 ELSE 1
    BY <2>1, <2>2 DEF Test
  <2>4. Len(ifdefs) = file.base => top = 1
    BY <2>1, <2>2, AtBase
  <2>5. Len(ifdefs) = file.base => t = 2 /\ skipping' = 1
    BY <2>3, <2>4
  <2>6. Altered(ifdefs, t, ifdefs')
    BY <2>1 DEF Altered
  <2> HIDE DEF t, top
  <2>7. t \in 0 .. 3 /\ skipping' \in {0, 1} /\ (skipping' = 0 => t \in {1, 3})
    BY <2>3
  <2> QED
    BY <2>1, <2>5, <2>6, <2>7, DropGuardIs, AlterKeeps
<1> QED
  BY <1>1, <1>2

\* #elif at the level of the includer only starts the skipping.
LEMMA ElifKeeps == IncludeInv /\ ReadElif => IncludeInv' /\ Len(files') = Len(files)
<1> DEFINE top == Last(ifdefs)
<1> SUFFICES ASSUME IncludeInv, ReadElif PROVE IncludeInv' /\ Len(files') = Len(files)
  OBVIOUS
<1>1. CASE Error
  BY <1>1 DEF Error, IncludeInv, IncludeTypes, Nested, file
<1>2. CASE ~ Error
  <2>1. /\ ifdefs # << >> /\ ~ (top > 1) /\ skipping \in {0, 1} /\ ~ AtEnd /\ line.op = "elif"
        /\ ifdefs' = IF top = 1 THEN ifdefs ELSE [ifdefs EXCEPT ![Len(ifdefs)] = line.arg]
        /\ Test(IF top = 1 THEN 0 ELSE line.arg)
        /\ Advance(DropGuard) /\ content' = content
    BY <1>2 DEF ReadElif, Branching
  <2>2. top = ifdefs[Len(ifdefs)] /\ top \in {0, 1} /\ ifdefs \in Seq(0 .. 3)
    BY <2>1 DEF IncludeInv, IncludeTypes, Last
  <2>3. line.arg \in {0, 1}
    BY <2>1, LineRead, LineArgs DEF IncludeInv
  <2>4. CASE top = 1
    <3>1. skipping' = 1 /\ ifdefs' = ifdefs
      BY <2>1, <2>4 DEF Test
    <3>2. GoesOn(ifdefs, file.under)
      BY <2>2, <2>4 DEF IncludeInv, Spoiled
    <3>3. Taken(ifdefs, 1)
      BY <2>2 DEF IncludeInv, Taken
    <3> QED
      BY <2>1, <2>2, <3>1, <3>2, <3>3, DropGuardIs, NextLine
  <2>5. CASE top = 0
    <3>1. Len(ifdefs) # file.base
      BY <2>1, <2>2, <2>5, AtBase
    <3>2. Altered(ifdefs, line.arg, ifdefs') /\ skipping' = IF line.arg = 1 THEN 0 ELSE 1
      BY <2>1, <2>3, <2>5 DEF Test, Altered
    <3> DEFINE t == line.arg
    <3>3. t \in 0 .. 3 /\ skipping' \in {0, 1} /\ (skipping' = 0 => t \in {1, 3})
      BY <3>2, <2>3
    <3> HIDE DEF t
    <3> QED
      BY <2>1, <3>1, <3>2, <3>3, DropGuardIs, AlterKeeps DEF t
  <2> QED
    BY <2>2, <2>4, <2>5
<1> QED
  BY <1>1, <1>2

\* #endif ends the skipping, but only of a group of the file itself.
LEMMA EndifKeeps == IncludeInv /\ ReadEndif => IncludeInv' /\ Len(files') = Len(files)
<1> DEFINE g == IF file.guard # NoMacro /\ Len(ifdefs) = file.base + 1
                THEN [file EXCEPT !.saved = file.guard, !.guard = NoMacro] ELSE file
<1> SUFFICES ASSUME IncludeInv, ReadEndif PROVE IncludeInv' /\ Len(files') = Len(files)
  OBVIOUS
<1>1. CASE Error
  BY <1>1 DEF Error, IncludeInv, IncludeTypes, Nested, file
<1>2. CASE ~ Error
  <2>1. /\ ~ (Len(ifdefs) <= file.base) /\ ifdefs' = Front(ifdefs) /\ skipping' = 0
        /\ Advance(g) /\ content' = content
    BY <1>2 DEF ReadEndif
  <2>2. g \in Frame /\ g.base = file.base /\ g.under = file.under
    BY BaseIs DEF Frame
  <2> HIDE DEF g
  <2>3. /\ ifdefs \in Seq(0 .. 3) /\ Len(ifdefs) \in Nat \ {0} /\ file.base = Len(file.under) /\ file.base \in Nat
    BY <2>1, BaseIs DEF IncludeInv, IncludeTypes
  <2>4. /\ ifdefs' \in Seq(0 .. 3) /\ Len(ifdefs') = Len(ifdefs) - 1
        /\ \A i \in 1 .. Len(ifdefs) - 1 : ifdefs'[i] = ifdefs[i]
    <3>1. ifdefs' = SubSeq(ifdefs, 1, Len(ifdefs) - 1)
      BY <2>1 DEF Front
    <3> DEFINE m == Len(ifdefs) - 1
    <3>2. m \in 0 .. Len(ifdefs) /\ ifdefs' = SubSeq(ifdefs, 1, m)
      BY <3>1, <2>3
    <3> HIDE DEF m
    <3>3. SubSeq(ifdefs, 1, m) \in Seq(0 .. 3) /\ Len(SubSeq(ifdefs, 1, m)) = m
      BY <3>2, <2>3, SubSeqProperties
    <3>4. \A i \in 1 .. m : SubSeq(ifdefs, 1, m)[i] = ifdefs[i]
      BY <3>2, <2>3, SubSeqProperties
    <3> QED
      BY <3>2, <3>3, <3>4 DEF m
  <2>5. GoesOn(ifdefs', file.under)
    <3>1. GoesOn(ifdefs, file.under) /\ Len(file.under) <= Len(ifdefs) - 1
      BY <2>1, <2>3 DEF IncludeInv, Spoiled
    <3>2. \A i \in 1 .. Len(file.under) : i \in 1 .. Len(ifdefs) - 1
      BY <3>1, <2>3
    <3> QED
      BY <3>1, <3>2, <2>4 DEF GoesOn
  <2>6. Taken(ifdefs', 0)
    BY <2>3, <2>4 DEF IncludeInv, Taken
  <2> QED
    BY <2>1, <2>2, <2>4, <2>5, <2>6, NextLine
<1> QED
  BY <1>1, <1>2

\* A file is opened where all groups are taken.
LEMMA IncludeKeeps ==
  IncludeInv /\ ReadInclude => IncludeInv' /\ ~ (Len(files') < Len(files))
<1> SUFFICES ASSUME IncludeInv, ReadInclude PROVE IncludeInv' /\ ~ (Len(files') < Len(files))
  OBVIOUS
<1>1. /\ Len(files) \in Nat \ {0} /\ file = files[Len(files)]
      /\ \A k \in 1 .. Len(files) : /\ files[k] \in Frame /\ files[k].under \in Seq(0 .. 3)
                                    /\ Len(files[k].under) \in Nat
  BY FramesAre DEF IncludeInv
<1>2. /\ skipping = 0 /\ ~ AtEnd /\ line.op = "include" /\ ifdefs \in Seq(0 .. 3)
  BY DEF ReadInclude, Reading, IncludeInv, IncludeTypes
<1>3. CASE Error
  BY <1>1, <1>3 DEF Error, IncludeInv, IncludeTypes, Nested, file
<1>4. CASE Advance(file) /\ UNCHANGED <<content, ifdefs, skipping>>
  BY <1>1, <1>4, BaseIs, SameGroups
<1>5. CASE /\ files' = Append([files EXCEPT ![Len(files)].pos = @ + 1], Open(line.arg))
           /\ UNCHANGED <<content, ifdefs, skipping>>
  <2> DEFINE D == Frame
             n == Len(files)
             r == [file EXCEPT !.pos = @ + 1]
             fs == [files EXCEPT ![n] = r]
             f == Open(line.arg)
  <2>1. files' = Append(fs, f)
    BY <1>1, <1>5
  <2>2. f \in D /\ f.base = Len(ifdefs) /\ f.under = ifdefs
    BY <1>2, LineRead, LineArgs DEF IncludeInv, Open, Frame
  <2>3. r \in D /\ r.base = file.base /\ r.under = file.under
    BY BaseIs DEF Frame
  <2>4. files \in Seq(D) /\ n \in 1 .. Len(files)
    BY <1>1 DEF IncludeInv, IncludeTypes
  <2> HIDE DEF D, r, f, n
  <2>5. /\ fs \in Seq(D) /\ Len(fs) = Len(files)
        /\ \A k \in 1 .. Len(files) : fs[k] = IF k = n THEN r ELSE files[k]
    BY <2>3, <2>4, ExceptSeq
  <2> HIDE DEF fs
  <2>6. /\ files' \in Seq(D) /\ Len(files') = Len(files) + 1 /\ files'[Len(files) + 1] = f
        /\ \A k \in 1 .. Len(files) : files'[k] = fs[k]
    BY <2>1, <2>2, <2>5
  <2>7. \A k \in 1 .. Len(files) : files'[k].base = files[k].base /\ files'[k].under = files[k].under
    BY <1>1, <2>3, <2>5, <2>6 DEF n
  <2>8. file' = f /\ files' # << >>
    BY <1>1, <2>6 DEF file, Last
  <2>9. GoesOn(ifdefs, file.under) /\ AllTaken(ifdefs)
    BY <1>2 DEF IncludeInv, Spoiled, Taken, AllTaken
  <2>10. Nested(files')
    <3>1. \A k \in 1 .. Len(files) + 1 : k \in 1 .. Len(files) \/ k = Len(files) + 1
      BY <1>1
    <3>2. ASSUME NEW k \in 1 .. Len(files')
          PROVE  files'[k].base = Len(files'[k].under) /\ AllTaken(files'[k].under)
      <4>1. CASE k \in 1 .. Len(files)
        BY <4>1, <2>7 DEF IncludeInv, Nested
      <4>2. CASE k = Len(files) + 1
        BY <4>2, <2>2, <2>6, <2>9
      <4> QED
        BY <3>1, <4>1, <4>2, <2>6
    <3>3. ASSUME NEW k \in 1 .. Len(files') - 1
          PROVE  GoesOn(files'[k + 1].under, files'[k].under)
      <4>1. k \in 1 .. Len(files)
        BY <1>1, <2>6
      <4>2. CASE k = Len(files)
        BY <4>1, <4>2, <1>1, <2>2, <2>6, <2>7, <2>9
      <4>3. CASE k # Len(files)
        <5>1. k \in 1 .. Len(files) - 1 /\ k + 1 \in 1 .. Len(files)
          BY <4>1, <4>3, <1>1
        <5> QED
          BY <5>1, <4>1, <2>7 DEF IncludeInv, Nested
      <4> QED
        BY <4>2, <4>3
    <3> QED
      BY <3>2, <3>3 DEF Nested
  <2>11. GoesOn(ifdefs', file'.under)
    BY <1>2, <1>5, <2>2, <2>8 DEF GoesOn
  <2> QED
    BY <1>1, <1>5, <2>6, <2>8, <2>10, <2>11 DEF IncludeInv, IncludeTypes, D
<1> QED
  BY <1>3, <1>4, <1>5 DEF ReadInclude

\* At the end of a file all its groups are closed, and its includer's are as it
\* found them.
LEMMA EndKeeps ==
  IncludeInv /\ EndOfFile => IncludeInv' /\ (Len(files') < Len(files) => ifdefs' = file.under)
<1> SUFFICES ASSUME IncludeInv, EndOfFile
             PROVE  IncludeInv' /\ (Len(files') < Len(files) => ifdefs' = file.under)
  OBVIOUS
<1>1. /\ Len(files) \in Nat \ {0} /\ file = files[Len(files)]
      /\ \A k \in 1 .. Len(files) : /\ files[k] \in Frame /\ files[k].under \in Seq(0 .. 3)
                                    /\ Len(files[k].under) \in Nat
  BY FramesAre DEF IncludeInv
<1>2. ifdefs \in Seq(0 .. 3) /\ skipping \in Nat
  BY DEF IncludeInv, IncludeTypes
<1>3. CASE UNCHANGED <<content, files, ifdefs, skipping>>
  BY <1>1, <1>3 DEF IncludeInv, IncludeTypes, Nested, file
<1>4. CASE /\ skipping = 0 /\ Len(ifdefs) = file.base /\ Len(files) # 1
           /\ files' = Front(files) /\ UNCHANGED <<content, ifdefs, skipping>>
  <2> DEFINE D == Frame
             m == Len(files) - 1
  <2>1. GoesOn(ifdefs, file.under) /\ AllTaken(ifdefs)
    BY <1>2, <1>4 DEF IncludeInv, Spoiled, Taken, AllTaken
  <2>2. ifdefs = file.under
    <3>1. Len(ifdefs) = Len(file.under) /\ file.under \in Seq(0 .. 3)
      BY <1>4, BaseIs
    <3>2. \A i \in 1 .. Len(ifdefs) : ifdefs[i] = file.under[i]
      BY <3>1, <2>1 DEF GoesOn
    <3> QED
      BY <3>1, <3>2, <1>2, SeqEqual
  <2>3. files \in Seq(D) /\ m \in Nat \ {0} /\ m \in 0 .. Len(files) /\ files' = SubSeq(files, 1, m)
    BY <1>1, <1>4 DEF IncludeInv, IncludeTypes, Front
  <2>4. m = Len(files) - 1 /\ m + 1 = Len(files) /\ m \in 1 .. m
    <3> DEFINE n == Len(files)
    <3>1. n \in Nat \ {0} /\ n # 1
      BY <1>1, <1>4
    <3> HIDE DEF n
    <3>2. n - 1 + 1 = n /\ n - 1 \in 1 .. n - 1
      BY <3>1
    <3> QED
      BY <3>2 DEF n
  <2> HIDE DEF D, m
  <2>5. /\ files' \in Seq(D) /\ Len(files') = m /\ \A k \in 1 .. m : files'[k] = files[k]
    <3>1. SubSeq(files, 1, m) \in Seq(D) /\ Len(SubSeq(files, 1, m)) = m
      BY <2>3, SubSeqProperties
    <3>2. \A k \in 1 .. m : SubSeq(files, 1, m)[k] = files[k]
      BY <2>3, SubSeqProperties
    <3> QED
      BY <3>1, <3>2, <2>3
  <2>6. files' # << >> /\ file' = files[m]
    BY <2>3, <2>4, <2>5 DEF file, Last
  <2>7. Nested(files')
    <3>1. \A k \in 1 .. m : k \in 1 .. Len(files)
      BY <2>3, <2>4
    <3>2. \A k \in 1 .. m - 1 : k \in 1 .. Len(files) - 1 /\ k \in 1 .. m /\ k + 1 \in 1 .. m
      BY <2>3, <2>4
    <3> QED
      BY <3>1, <3>2, <2>5 DEF IncludeInv, Nested
  <2>8. GoesOn(ifdefs, file'.under)
    <3>1. m \in 1 .. Len(files) - 1
      BY <2>3, <2>4
    <3>2. GoesOn(files[m + 1].under, files[m].under)
      BY <3>1 DEF IncludeInv, Nested
    <3> QED
      BY <3>2, <1>1, <2>2, <2>4, <2>6
  <2> QED
    BY <1>4, <2>2, <2>5, <2>6, <2>7, <2>8 DEF IncludeInv, IncludeTypes, D
<1>5. CASE skipping > 0 \/ Len(ifdefs) # file.base
  BY <1>3, <1>5 DEF EndOfFile, Error
<1>6. CASE skipping = 0 /\ Len(ifdefs) = file.base
  <2>1. CASE Len(files) = 1
    BY <1>3, <1>6, <2>1 DEF EndOfFile
  <2>2. CASE Len(files) # 1
    BY <1>4, <1>6, <2>2 DEF EndOfFile
  <2> QED
    BY <2>1, <2>2
<1> QED
  BY <1>2, <1>5, <1>6

\* Every line keeps the invariant, and only the end of a file returns to its
\* includer.
LEMMA LineKeeps ==
  IncludeInv /\ [Next]_vars => IncludeInv' /\ (Len(files') < Len(files) => ifdefs' = file.under)
<1> SUFFICES ASSUME IncludeInv, [Next]_vars
             PROVE  IncludeInv' /\ (Len(files') < Len(files) => ifdefs' = file.under)
  OBVIOUS
<1>1. file \in Frame /\ Len(files) \in Nat /\ skipping \in Nat
  BY BaseIs, FramesAre DEF IncludeInv, IncludeTypes
<1>2. CASE ReadText \/ ReadNull \/ ReadDefine \/ ReadOnce
  <2>1. Advance(file) /\ UNCHANGED <<content, ifdefs, skipping>>
    BY <1>2 DEF ReadText, ReadNull, ReadDefine, ReadOnce
  <2> QED
    BY <1>1, <2>1, SameGroups
<1>3. CASE ReadIf \/ ReadElse \/ ReadElif \/ ReadEndif
  BY <1>1, <1>3, IfKeeps, ElseKeeps, ElifKeeps, EndifKeeps
<1>4. CASE Skip
  <2>1. Advance(file) /\ UNCHANGED <<content, ifdefs>> /\ skipping > 0 /\ skipping' > 0 /\ skipping' \in Nat
    BY <1>1, <1>4 DEF Skip
  <2> QED
    BY <1>1, <2>1, SameGroups
<1>5. CASE ReadInclude
  BY <1>5, IncludeKeeps
<1>6. CASE EndOfFile
  BY <1>6, EndKeeps
<1>7. CASE UNCHANGED vars
  BY <1>1, <1>7 DEF vars, IncludeInv, IncludeTypes, Nested, file
<1> QED
  BY <1>2, <1>3, <1>4, <1>5, <1>6, <1>7 DEF Next

\* The main file is opened in no group.
LEMMA InitIncluded == Init => IncludeInv
<1> SUFFICES ASSUME Init PROVE IncludeInv
  OBVIOUS
<1> DEFINE f == [name |-> Main, pos |-> 1, base |-> 0, guard |-> NoMacro,
                 saved |-> NoMacro, prev_flags |-> {}, under |-> << >>]
<1>1. files = <<f>> /\ ifdefs = << >> /\ skipping = 0
  BY DEF Init
<1>2. f \in Frame /\ f.base = 0 /\ f.under = << >>
  BY PPAssumption DEF Frame
<1> HIDE DEF f
<1>3. files \in Seq(Frame) /\ files # << >> /\ Len(files) = 1 /\ files[1] = f
  BY <1>1, <1>2
<1>4. file = f
  BY <1>1 DEF file, Last
<1>5. Nested(files)
  BY <1>2, <1>3 DEF Nested, AllTaken
<1>6. IncludeTypes
  BY <1>1, <1>3, PPAssumption DEF IncludeTypes, Init
<1>7. GoesOn(ifdefs, file.under) /\ Taken(ifdefs, skipping)
  BY <1>1, <1>2, <1>4 DEF GoesOn, Taken
<1> QED
  BY <1>5, <1>6, <1>7 DEF IncludeInv

\* The groups a file is opened in are taken and at the bottom of the #if stack
\* while the file is read, or the rest of the file is skipped.
THEOREM IncludeInvariant == Spec => []IncludeInv
<1>1. Init => IncludeInv
  BY InitIncluded
<1>2. IncludeInv /\ [Next]_vars => IncludeInv'
  BY LineKeeps
<1> QED
  BY <1>1, <1>2, PTL DEF Spec

\* A file that is closed without an error leaves the #if stack of its includer
\* as it found it, although #else and #elif look only at the bottom of the
\* stack that all files share.
THEOREM IncluderIsUntouched == Spec => IncluderUntouched
<1>1. IncludeInv /\ [Next]_vars => [Len(files') < Len(files) => ifdefs' = file.under]_vars
  BY LineKeeps
<1> QED
  BY <1>1, IncludeInvariant, PTL DEF Spec, IncluderUntouched
====
