----------------------------- MODULE LinkHistory -----------------------------
(***************************************************************************)
(* LinkTable with a history of what was entered, to say what the outcome   *)
(* owes to it: the promises of the resolution rule itself.                 *)
(***************************************************************************)
EXTENDS LinkTable

VARIABLE claims   \* every symbol entered so far, as <<name, attributes>>

hvars == <<table, clashed, claims>>

HInit == Init /\ claims = {}

HEnter(n, a) == Enter(n, a) /\ claims' = claims \cup {<<n, a>>}

HNext == \E n \in Name, a \in Decl : HEnter(n, a)

HSpec == HInit /\ [][HNext]_hvars
-----------------------------------------------------------------------------
TypeOK ==
  /\ table \in [Name -> Attr \cup {None}]
  /\ claims \subseteq Name \X Attr
  /\ clashed \in BOOLEAN

\* A definition no rule of the linker may drop without a word: global, in a
\* section with contents, and visible by default.
Strong(a) ==
  Defined(a) /\ a.bind = GLOBAL /\ ~ IsBss(a) /\ a.vis \notin {Internal, Hidden}

\* Whatever else was entered before or after it, once a strong definition of a
\* name has been seen the table holds a definition with contents and global
\* binding: weak, BSS and COMMON definitions and references, in any order of
\* files, never displace it (set_elf_sym's cascade of cases).
StrongWins ==
  ~ DynTable =>
    \A n \in Name :
      (\E c \in claims : c[1] = n /\ Strong(c[2])) =>
        /\ table[n] # None
        /\ Defined(table[n]) /\ table[n].bind = GLOBAL /\ ~ IsBss(table[n])

\* If no clash was reported, every strong definition ever entered is the one in
\* the table, unless an assembler .set made the symbol replaceable: no strong
\* definition is lost silently.
NoSilentLoss ==
  (~ clashed /\ ~ DynTable) =>
    \A c \in claims :
      (Strong(c[2]) /\ \A d \in claims : d[1] = c[1] => ~ d[2].aset)
        => table[c[1]].val = c[2].val /\ table[c[1]].shndx = c[2].shndx

\* A reference is never forgotten and a definition never reverts to a
\* reference: the table knows a name, and knows it defined, exactly if some
\* symbol entered under that name was.
DefinedIffClaimed ==
  \A n \in Name :
    /\ table[n] = None <=> \A c \in claims : c[1] # n
    /\ table[n] # None => (Defined(table[n]) <=> \E c \in claims : c[1] = n /\ Defined(c[2]))
=============================================================================
