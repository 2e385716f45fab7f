--------------------------- MODULE NamesDbProofs ---------------------------
(***************************************************************************)
(* Theorems about NamesDb, for any file, any hash function and any widths  *)
(* of the numbers: what a look-up finds is what the file says first.       *)
(***************************************************************************)
EXTENDS NamesDb, SequenceTheorems, TLAPS

(* The number of the next line.                                            *)
LineNo == Len(lines) + 1

(* The subclass that the next line is under, if h is a class.              *)
LastTab(h, s) == /\ s \in (h + 1)..Len(lines) /\ Named(s, "tab")
                 /\ \A j \in (s + 1)..Len(lines) : ~ Named(j, "tab")

(* lastsubclass is that subclass, or None if there is none yet.            *)
InSub(h) ==
    \/ lastsubclass = None /\ \A j \in (h + 1)..Len(lines) : ~ Named(j, "tab")
    \/ \E s \in 1..Len(lines) : LastTab(h, s) /\ lastsubclass = AsInt(lines[s].id)

(* The section of the header at h is what the parser's memory says.        *)
InSection(h) ==
    /\ Named(h, "vendor") => lastvendor = AsInt(lines[h].id) /\ lastclass = None
    /\ Named(h, "class")  => /\ lastvendor = None /\ lastclass = AsInt(lines[h].id)
                             /\ lastclass # None => InSub(h)
    /\ ~ Named(h, "vendor") /\ ~ Named(h, "class") => lastvendor = None /\ lastclass = None

(* The parser's memory is the last complete header above the next line.    *)
Memory ==
    \/ /\ \A h \in 1..Len(lines) : ~ IsHeader(h)
       /\ lastvendor = None /\ lastclass = None
    \/ \E h \in 1..Len(lines) : Under(LineNo, h) /\ InSection(h)

(* The types.                                                              *)
NamesType ==
    /\ lines \in Seq(Line)
    /\ failed \subseteq 1..Len(lines)
    /\ table \in [Table -> [Bucket -> Seq([key : UNION {Keys[t] : t \in Table}, name : Nat])]]
    /\ lastvendor \in Int /\ lastclass \in Int /\ lastsubclass \in Int

(* A chain has one entry for a key.                                        *)
Chains ==
    \A t \in Table : \A b \in Bucket : \A i, j \in DOMAIN table[t][b] :
        table[t][b][i].key = table[t][b][j].key => i = j

(* The entry for k, if there is one, is named by the first line that gives *)
(* k a name; and there is one if any line does.                            *)
First(t, k) ==
    LET chain == table[t][Hash(k)] IN
    /\ \A i \in DOMAIN chain : chain[i].key = k =>
         /\ chain[i].name \in Sources(t, k)
         /\ \A s \in Sources(t, k) : chain[i].name <= s
    /\ Sources(t, k) # {} => Has(chain, k)

(* The inductive invariant.                                                *)
NamesInv == NamesType /\ Chains /\ Memory /\ \A t \in Table : \A k \in Keys[t] : First(t, k)
-----------------------------------------------------------------------------
(* A line more.                                                            *)
Grown(l) ==
    /\ l \in Line /\ lines' \in Seq(Line)
    /\ Len(lines) \in Nat /\ Len(lines') = Len(lines) + 1
    /\ \A i \in 1..Len(lines) : lines'[i] = lines[i]
    /\ lines'[Len(lines) + 1] = l

(* The lines that were read stay as they are.                              *)
LEMMA LineGrows ==
    ASSUME NamesType, NEW l \in Line, lines' = Append(lines, l)
    PROVE  Grown(l)
<1>1. lines \in Seq(Line)
  BY DEF NamesType
<1>2. QED
  BY <1>1, LenProperties, AppendProperties DEF Grown

(* The tables and their keys, one by one.                                  *)
LEMMA Tables ==
    /\ Table = {"vendor", "product", "class", "subclass", "protocol"}
    /\ W8 \in Nat \ {0} /\ W16 \in Nat \ {0}
    /\ Keys["vendor"]   = {<<v>> : v \in Word}
    /\ Keys["product"]  = {<<v, p>> : v \in Word, p \in Word}
    /\ Keys["class"]    = {<<c>> : c \in Byte}
    /\ Keys["subclass"] = {<<c, s>> : c \in Byte, s \in Byte}
    /\ Keys["protocol"] = {<<c, s, p>> : c \in Byte, s \in Byte, p \in Byte}
  BY WidthAssumption DEF Table, Keys

(* A number cut to a width is in it.                                       *)
LEMMA Rests ==
    \A n \in Int : n % W8 \in Byte /\ n % W16 \in Word
  BY WidthAssumption DEF Byte, Word

(* A line reads as it did when more lines follow,                          *)
LEMMA SameNamed ==
    ASSUME NEW l, Grown(l), NEW i \in 1..Len(lines)
    PROVE  /\ \A kind : Named(i, kind)' <=> Named(i, kind)
           /\ IsHeader(i)' <=> IsHeader(i)
           /\ \A kind : Opens(i, kind)' <=> Opens(i, kind)
           /\ \A w : In(i, w)' = In(i, w)
<1>1. lines'[i] = lines[i]
  BY DEF Grown
<1>2. QED
  BY <1>1 DEF Named, IsHeader, Opens, In

(* so do the header and the subclass above it,                             *)
LEMMA SameUnder ==
    ASSUME NEW l, Grown(l), NEW i \in 1..(Len(lines) + 1), NEW h \in 1..(i - 1)
    PROVE  /\ Under(i, h)' <=> Under(i, h)
           /\ \A s \in 1..(i - 1) : UnderSub(i, h, s)' <=> UnderSub(i, h, s)
<1>1. Len(lines) \in Nat /\ \A j \in 1..(i - 1) : j \in 1..Len(lines)
  BY DEF Grown
<1>2. Under(i, h)' <=> Under(i, h)
  BY <1>1, SameNamed DEF Under
<1>3. ASSUME NEW s \in 1..(i - 1)
      PROVE  UnderSub(i, h, s)' <=> UnderSub(i, h, s)
  BY <1>1, SameNamed DEF UnderSub
<1>4. QED
  BY <1>2, <1>3

(* and so does what it gives a name to.                                    *)
LEMMA SameEntry ==
    ASSUME NEW l, Grown(l), NEW i \in 1..Len(lines), NEW t \in Table, NEW k
    PROVE  Entry(t, i, k)' <=> Entry(t, i, k)
<1>1. /\ Len(lines) \in Nat /\ i \in 1..(Len(lines) + 1)
      /\ \A j \in 1..(i - 1) : j \in 1..Len(lines)
      /\ lines'[i] = lines[i]
  BY DEF Grown
<1>2. /\ \A kind : Named(i, kind)' <=> Named(i, kind)
      /\ \A h \in 1..(i - 1) : \A kind : Opens(h, kind)' <=> Opens(h, kind)
      /\ \A h \in 1..(i - 1) : \A w : In(h, w)' = In(h, w)
  BY <1>1, SameNamed
<1>3. /\ \A h \in 1..(i - 1) : Under(i, h)' <=> Under(i, h)
      /\ \A h, s \in 1..(i - 1) : UnderSub(i, h, s)' <=> UnderSub(i, h, s)
  BY <1>1, SameUnder
<1>4. CASE t = "vendor"
  BY <1>1, <1>2, <1>4 DEF Entry
<1>5. CASE t = "class"
  BY <1>1, <1>2, <1>5 DEF Entry
<1>6. CASE t = "product"
  BY <1>1, <1>2, <1>3, <1>6 DEF Entry
<1>7. CASE t = "subclass"
  BY <1>1, <1>2, <1>3, <1>7 DEF Entry
<1>8. CASE t = "protocol"
  BY <1>1, <1>2, <1>3, <1>8 DEF Entry
<1>9. QED
  BY <1>4, <1>5, <1>6, <1>7, <1>8, Tables

(* The next line is in one section,                                        *)
LEMMA OneHeader ==
    ASSUME Len(lines) \in Nat, NEW h \in 1..Len(lines), NEW g \in 1..Len(lines),
           Under(LineNo, h), Under(LineNo, g)
    PROVE  h = g
<1>1. ~ (h < g) /\ ~ (g < h)
  BY DEF Under, LineNo
<1>2. QED
  BY <1>1

(* and under one subclass.                                                 *)
LEMMA OneTab ==
    ASSUME Len(lines) \in Nat, NEW h \in 1..Len(lines),
           NEW s \in 1..Len(lines), NEW r \in 1..Len(lines), LastTab(h, s), LastTab(h, r)
    PROVE  s = r
<1>1. ~ (s < r) /\ ~ (r < s)
  BY DEF LastTab
<1>2. QED
  BY <1>1

(* The section and the subclass the next line is in.                       *)
LEMMA Sections ==
    ASSUME NamesType, Memory, Len(lines) \in Nat
    PROVE  /\ lastvendor # None =>
                \E h \in 1..Len(lines) : /\ Under(LineNo, h) /\ Opens(h, "vendor")
                                         /\ lastvendor = AsInt(lines[h].id)
           /\ lastclass # None =>
                \E h \in 1..Len(lines) : /\ Under(LineNo, h) /\ Opens(h, "class")
                                         /\ lastclass = AsInt(lines[h].id) /\ InSub(h)
           /\ \A h \in 1..Len(lines) : Under(LineNo, h) =>
                /\ Opens(h, "vendor") => lastvendor = AsInt(lines[h].id) /\ lastvendor # None
                /\ Opens(h, "class") => /\ lastclass = AsInt(lines[h].id) /\ lastclass # None
                                        /\ InSub(h)
           /\ lastvendor = None \/ lastclass = None
<1>1. CASE /\ \A h \in 1..Len(lines) : ~ IsHeader(h)
           /\ lastvendor = None /\ lastclass = None
  BY <1>1 DEF Under, LineNo
<1>2. CASE \E h \in 1..Len(lines) : Under(LineNo, h) /\ InSection(h)
  <2>1. PICK h \in 1..Len(lines) : Under(LineNo, h) /\ InSection(h)
    BY <1>2
  <2>2. \A g \in 1..Len(lines) : Under(LineNo, g) => g = h
    BY <2>1, OneHeader
  <2>3. Named(h, "vendor") => ~ Named(h, "class")
    BY DEF Named
  <2> QED
    BY <2>1, <2>2, <2>3 DEF InSection, Opens
<1>3. QED
  BY <1>1, <1>2 DEF Memory

(* What is stored for a line, by the parser's memory.                      *)
Wants(l, t, k) ==
    CASE t = "vendor"   -> l.kind = "vendor" /\ l.named /\ k = <<l.id % W16>>
      [] t = "class"    -> l.kind = "class" /\ l.named /\ k = <<l.id % W8>>
      [] t = "product"  -> /\ l.kind = "tab" /\ l.named /\ lastvendor # None
                           /\ k = <<lastvendor % W16, l.id % W16>>
      [] t = "subclass" -> /\ l.kind = "tab" /\ l.named /\ lastclass # None
                           /\ k = <<lastclass % W8, l.id % W8>>
      [] OTHER          -> /\ l.kind = "tabtab" /\ l.named
                           /\ lastclass # None /\ lastsubclass # None
                           /\ k = <<lastclass % W8, lastsubclass % W8, l.id % W8>>

(* The parser's memory says the same as the file: what is wanted for a     *)
(* line is what the line gives a name to.                                  *)
LEMMA Reads ==
    ASSUME NamesType, Memory, NEW l, Grown(l), NEW t \in Table, NEW k,
           NEW n, n = LineNo
    PROVE  Entry(t, n, k)' <=> Wants(l, t, k)
<1>1. /\ Len(lines) \in Nat /\ n = Len(lines) + 1 /\ n \in 1..(Len(lines) + 1)
      /\ 1..(n - 1) = 1..Len(lines) /\ lines'[n] = l
  BY DEF Grown, LineNo
<1>2. \A kind : Named(n, kind)' <=> l.kind = kind /\ l.named
  BY <1>1 DEF Named
<1>3. /\ \A h \in 1..Len(lines) : Under(n, h)' <=> Under(LineNo, h)
      /\ \A h, s \in 1..Len(lines) : UnderSub(n, h, s)' <=> UnderSub(n, h, s)
      /\ \A h \in 1..Len(lines) : /\ \A kind : Opens(h, kind)' <=> Opens(h, kind)
                                  /\ \A w : In(h, w)' = AsInt(lines[h].id) % w
  BY <1>1, SameUnder, SameNamed DEF In
<1>4. CASE t = "vendor"
  BY <1>1, <1>2, <1>4 DEF Entry, Wants
<1>5. CASE t = "class"
  BY <1>1, <1>2, <1>5 DEF Entry, Wants
<1>6. CASE t = "product"
  <2>1. Entry(t, n, k)' <=>
          /\ l.kind = "tab" /\ l.named
          /\ \E h \in 1..Len(lines) :
               /\ Under(LineNo, h) /\ Opens(h, "vendor")
               /\ k = <<AsInt(lines[h].id) % W16, l.id % W16>>
    BY <1>1, <1>2, <1>3, <1>6 DEF Entry
  <2>2. Wants(l, t, k) <=> /\ l.kind = "tab" /\ l.named /\ lastvendor # None
                           /\ k = <<lastvendor % W16, l.id % W16>>
    BY <1>6 DEF Wants
  <2> QED
    BY <1>1, <2>1, <2>2, Sections
<1>7. CASE t = "subclass"
  <2>1. Entry(t, n, k)' <=>
          /\ l.kind = "tab" /\ l.named
          /\ \E h \in 1..Len(lines) :
               /\ Under(LineNo, h) /\ Opens(h, "class")
               /\ k = <<AsInt(lines[h].id) % W8, l.id % W8>>
    BY <1>1, <1>2, <1>3, <1>7 DEF Entry
  <2>2. Wants(l, t, k) <=> /\ l.kind = "tab" /\ l.named /\ lastclass # None
                           /\ k = <<lastclass % W8, l.id % W8>>
    BY <1>7 DEF Wants
  <2> QED
    BY <1>1, <2>1, <2>2, Sections
<1>8. CASE t = "protocol"
  <2>1. Entry(t, n, k)' <=>
          /\ l.kind = "tabtab" /\ l.named
          /\ \E h, s \in 1..Len(lines) :
               /\ Under(LineNo, h) /\ Opens(h, "class") /\ UnderSub(n, h, s)
               /\ k = <<AsInt(lines[h].id) % W8, AsInt(lines[s].id) % W8, l.id % W8>>
    BY <1>1, <1>2, <1>3, <1>8 DEF Entry
  <2>2. Wants(l, t, k) <=> /\ l.kind = "tabtab" /\ l.named
                           /\ lastclass # None /\ lastsubclass # None
                           /\ k = <<lastclass % W8, lastsubclass % W8, l.id % W8>>
    BY <1>8 DEF Wants
  <2>3. \A h, s \in 1..Len(lines) :
          UnderSub(n, h, s) <=> LastTab(h, s) /\ AsInt(lines[s].id) # None
    BY <1>1 DEF UnderSub, LastTab, Opens
  <2>4. ASSUME Entry(t, n, k)'
        PROVE  Wants(l, t, k)
    <3>1. PICK h \in 1..Len(lines), s \in 1..Len(lines) :
            /\ Under(LineNo, h) /\ Opens(h, "class") /\ UnderSub(n, h, s)
            /\ k = <<AsInt(lines[h].id) % W8, AsInt(lines[s].id) % W8, l.id % W8>>
      BY <2>1, <2>4
    <3>2. lastclass = AsInt(lines[h].id) /\ lastclass # None /\ InSub(h)
      BY <1>1, <3>1, Sections
    <3>3. LastTab(h, s) /\ AsInt(lines[s].id) # None
      BY <2>3, <3>1
    <3>4. lastsubclass = AsInt(lines[s].id)
      BY <1>1, <3>2, <3>3, OneTab DEF InSub, LastTab
    <3> QED
      BY <2>1, <2>2, <2>4, <3>1, <3>2, <3>3, <3>4
  <2>5. ASSUME Wants(l, t, k)
        PROVE  Entry(t, n, k)'
    <3>1. PICK h \in 1..Len(lines) : /\ Under(LineNo, h) /\ Opens(h, "class")
                                     /\ lastclass = AsInt(lines[h].id) /\ InSub(h)
      BY <1>1, <2>2, <2>5, Sections
    <3>2. PICK s \in 1..Len(lines) : LastTab(h, s) /\ lastsubclass = AsInt(lines[s].id)
      BY <2>2, <2>5, <3>1 DEF InSub
    <3>3. UnderSub(n, h, s)
      BY <2>2, <2>3, <2>5, <3>2
    <3> QED
      BY <2>1, <2>2, <2>5, <3>1, <3>2, <3>3
  <2> QED
    BY <2>4, <2>5
<1>9. QED
  BY <1>4, <1>5, <1>6, <1>7, <1>8, Tables
-----------------------------------------------------------------------------
(* The parser's memory after a header, and after any other line.           *)
LEMMA AfterHeader ==
    ASSUME NEW l, Grown(l),
           \/ l.kind \in {"L", "HUT"} /\ lastvendor' = None /\ lastclass' = None
           \/ /\ l.kind = "vendor" /\ l.named
              /\ lastvendor' = AsInt(l.id) /\ lastclass' = None
           \/ /\ l.kind = "class" /\ l.named
              /\ lastclass' = AsInt(l.id) /\ lastvendor' = None /\ lastsubclass' = None
    PROVE  Memory'
<1>1. PICK n \in Nat : n = Len(lines') /\ n \in 1..Len(lines') /\ lines'[n] = l
  BY DEF Grown
<1>2. Under(LineNo, n)'
  <2>1. IsHeader(n)'
    BY <1>1 DEF IsHeader, Named
  <2> QED
    BY <1>1, <2>1 DEF Under, LineNo
<1>3. InSection(n)'
  <2>1. \A j \in (n + 1)..n : FALSE
    BY <1>1
  <2> QED
    BY <1>1, <2>1 DEF InSection, InSub, Named
<1>4. QED
  BY <1>1, <1>2, <1>3 DEF Memory

(* The parser's memory after any line but a complete header.               *)
LEMMA AfterBody ==
    ASSUME NamesType, Memory, NEW l, Grown(l),
           l.kind \notin {"L", "HUT"}, ~ (l.kind \in {"vendor", "class"} /\ l.named),
           lastvendor' = lastvendor, lastclass' = lastclass,
           IF l.kind = "tab" /\ l.named
             THEN lastclass # None => lastsubclass' = AsInt(l.id)
             ELSE lastsubclass' = lastsubclass
    PROVE  Memory'
<1>1. PICK n \in Nat :
        /\ n = Len(lines') /\ Len(lines) \in Nat /\ n = Len(lines) + 1 /\ lines'[n] = l
        /\ \A i \in 1..n : i \in 1..Len(lines) \/ i = n
        /\ \A i \in 1..Len(lines) : i \in 1..n
  BY DEF Grown
<1>2. /\ \A i \in 1..Len(lines) : IsHeader(i)' <=> IsHeader(i)
      /\ \A i \in 1..Len(lines) : \A kind : Named(i, kind)' <=> Named(i, kind)
      /\ \A i \in 1..Len(lines) : lines'[i] = lines[i]
  BY SameNamed DEF Grown
<1>3. ~ IsHeader(n)'
  BY <1>1 DEF IsHeader, Named
<1>4. Named(n, "tab")' <=> l.kind = "tab" /\ l.named
  BY <1>1 DEF Named
<1>5. CASE /\ \A h \in 1..Len(lines) : ~ IsHeader(h)
           /\ lastvendor = None /\ lastclass = None
  BY <1>1, <1>2, <1>3, <1>5 DEF Memory
<1>6. ASSUME NEW h \in 1..Len(lines), Under(LineNo, h), InSection(h)
      PROVE  Memory'
  <2>1. Under(LineNo, h)'
    <3>1. \A j \in (h + 1)..n : ~ IsHeader(j)'
      <4> SUFFICES ASSUME NEW j \in (h + 1)..n
                   PROVE  ~ IsHeader(j)'
        OBVIOUS
      <4>1. CASE j = n
        BY <1>3, <4>1
      <4>2. CASE j # n
        <5>1. j \in 1..Len(lines) /\ j \in (h + 1)..(LineNo - 1)
          BY <1>1, <4>2 DEF LineNo
        <5> QED
          BY <1>2, <1>6, <5>1 DEF Under
      <4> QED
        BY <4>1, <4>2
    <3>2. IsHeader(h)'
      BY <1>2, <1>6 DEF Under
    <3>3. h \in 1..(n + 1 - 1) /\ n + 1 - 1 = n
      BY <1>1
    <3> QED
      BY <1>1, <3>1, <3>2, <3>3 DEF Under, LineNo
  <2>2. ASSUME lastclass # None, InSub(h)
        PROVE  InSub(h)'
    <3>1. CASE l.kind = "tab" /\ l.named
      <4>1. LastTab(h, n)'
        <5>1. n \in (h + 1)..n /\ \A j \in (n + 1)..n : FALSE
          BY <1>1
        <5> QED
          BY <1>1, <1>4, <3>1, <5>1 DEF LastTab
      <4>3. lastsubclass' = AsInt((lines'[n]).id)
        BY <1>1, <2>2, <3>1
      <4>4. n \in 1..n
        BY <1>1
      <4> QED
        BY <1>1, <4>1, <4>3, <4>4 DEF InSub, AsInt
    <3>2. CASE ~ (l.kind = "tab" /\ l.named)
      <4>1. lastsubclass' = lastsubclass /\ ~ Named(n, "tab")'
        BY <1>4, <3>2
      <4>2. CASE lastsubclass = None /\ \A j \in (h + 1)..Len(lines) : ~ Named(j, "tab")
        <5>1. ASSUME NEW j \in (h + 1)..n
              PROVE  ~ Named(j, "tab")'
          <6>1. j = n \/ (j \in (h + 1)..Len(lines) /\ j \in 1..Len(lines))
            BY <1>1
          <6> QED
            BY <1>2, <4>1, <4>2, <6>1
        <5> QED
          BY <1>1, <4>1, <4>2, <5>1 DEF InSub
      <4>3. ASSUME NEW s \in 1..Len(lines), LastTab(h, s), lastsubclass = AsInt(lines[s].id)
            PROVE  InSub(h)'
        <5>1. s \in (h + 1)..n /\ s \in 1..n /\ lines'[s] = lines[s]
          BY <1>1, <1>2, <4>3 DEF LastTab
        <5>2. ASSUME NEW j \in (s + 1)..n
              PROVE  ~ Named(j, "tab")'
          <6>1. j = n \/ (j \in (s + 1)..Len(lines) /\ j \in 1..Len(lines))
            BY <1>1
          <6> QED
            BY <1>2, <4>1, <4>3, <6>1 DEF LastTab
        <5>3. Named(s, "tab")'
          BY <1>2, <4>3 DEF LastTab
        <5>4. LastTab(h, s)'
          BY <1>1, <5>1, <5>2, <5>3 DEF LastTab
        <5> QED
          BY <1>1, <4>1, <4>3, <5>1, <5>4 DEF InSub, AsInt
      <4> QED
        BY <2>2, <4>2, <4>3 DEF InSub
    <3> QED
      BY <3>1, <3>2
  <2>3. InSection(h)'
    BY <1>2, <1>6, <2>2 DEF InSection, AsInt
  <2>4. h \in 1..n
    BY <1>1
  <2> QED
    BY <1>1, <2>1, <2>3, <2>4 DEF Memory
<1>7. QED
  BY <1>5, <1>6 DEF Memory
-----------------------------------------------------------------------------
(* The tables.                                                             *)

(* The tables are typed; and every key has its first name.                 *)
EntryRec == [key : UNION {Keys[t] : t \in Table}, name : Nat]
Tabled   == table \in [Table -> [Bucket -> Seq(EntryRec)]] /\ failed \subseteq 1..Len(lines)
AllFirst == \A t \in Table : \A k \in Keys[t] : First(t, k)

(* What the lines read so far give is as before, if the new one failed or  *)
(* gives k nothing.                                                        *)
LEMMA SourcesSame ==
    ASSUME NEW l, Grown(l), NEW t \in Table, NEW k, failed \subseteq 1..Len(lines),
           NEW n, n = LineNo, failed' \ failed \subseteq {n}, failed \subseteq failed'
    PROVE  /\ Entry(t, n, k)' /\ n \notin failed' => Sources(t, k)' = Sources(t, k) \cup {n}
           /\ ~ (Entry(t, n, k)' /\ n \notin failed') => Sources(t, k)' = Sources(t, k)
<1>1. /\ Len(lines) \in Nat /\ n = Len(lines) + 1 /\ Len(lines') = n
      /\ 1..n = 1..Len(lines) \cup {n} /\ n \notin 1..Len(lines)
  BY DEF Grown, LineNo
<1>2. \A i \in 1..Len(lines) : Entry(t, i, k)' <=> Entry(t, i, k)
  BY SameEntry
<1>3. Sources(t, k)' = {i \in 1..n : Entry(t, i, k)' /\ i \notin failed'}
  BY <1>1 DEF Sources
<1>4. QED
  BY <1>1, <1>2, <1>3 DEF Sources

(* The line gives nothing.                                                 *)
LEMMA Passes ==
    ASSUME Tabled, Chains, AllFirst, NEW l, Grown(l), NEW n, n = LineNo,
           table' = table, failed' = failed,
           \A t \in Table : \A k \in Keys[t] : ~ Entry(t, n, k)'
    PROVE  Tabled' /\ Chains' /\ AllFirst'
<1>1. 1..Len(lines) \subseteq 1..Len(lines')
  BY DEF Grown
<1>2. \A t \in Table : \A k \in Keys[t] : Sources(t, k)' = Sources(t, k)
  BY SourcesSame DEF Tabled
<1>3. QED
  BY <1>1, <1>2 DEF Tabled, EntryRec, Chains, AllFirst, First, Has

(* A chain with one entry more, in front.                                  *)
LEMMA Pushed ==
    ASSUME NEW S, NEW chain \in Seq(S), NEW e \in S, NEW c, c = <<e>> \o chain
    PROVE  /\ c \in Seq(S) /\ c[1] = e /\ 1 \in DOMAIN c
           /\ \A i \in DOMAIN c : i = 1 \/ (i - 1 \in DOMAIN chain /\ c[i] = chain[i - 1])
           /\ \A i \in DOMAIN chain : i + 1 \in DOMAIN c /\ c[i + 1] = chain[i]
<1>1. <<e>> \in Seq(S) /\ Len(<<e>>) = 1 /\ <<e>>[1] = e
  OBVIOUS
<1>2. PICK one : one = <<e>>
  OBVIOUS
<1>3. Len(chain) \in Nat /\ DOMAIN chain = 1..Len(chain)
  BY LenProperties
<1>4. /\ c \in Seq(S) /\ Len(c) = 1 + Len(chain)
      /\ \A i \in 1..(1 + Len(chain)) : c[i] = IF i <= 1 THEN one[i] ELSE chain[i - 1]
  BY <1>1, <1>2, ConcatProperties
<1>5. DOMAIN c = 1..(1 + Len(chain))
  BY <1>4, LenProperties
<1>6. QED
  BY <1>1, <1>2, <1>3, <1>4, <1>5

(* The line gives k0 a name in t0, and nothing else.                       *)
LEMMA Stores ==
    ASSUME Tabled, Chains, AllFirst, NEW l, Grown(l), NEW n, n = LineNo,
           NEW t0 \in Table, NEW k0 \in Keys[t0], New(t0, k0),
           \A t \in Table : \A k \in Keys[t] : Entry(t, n, k)' <=> t = t0 /\ k = k0
    PROVE  Tabled' /\ Chains' /\ AllFirst'
<1> DEFINE b0 == Hash(k0)
<1>1. /\ b0 \in Bucket /\ n \in Nat /\ n = Len(lines) + 1 /\ n \notin 1..Len(lines)
      /\ Len(lines') = n /\ n \in 1..n /\ 1..Len(lines) \subseteq 1..n
      /\ \A i \in 1..Len(lines) : i < n
  BY HashAssumption DEF Grown, LineNo
<1>2. /\ failed \subseteq 1..Len(lines) /\ n \notin failed
      /\ table \in [Table -> [Bucket -> Seq(EntryRec)]]
  BY <1>1 DEF Tabled
<1>3. \A t \in Table : \A k \in Keys[t] : Sources(t, k) \subseteq 1..Len(lines)
  BY DEF Sources
<1>4. CASE Has(table[t0][b0], k0)
  <2>1. table' = table /\ failed' = failed
    BY <1>4 DEF New
  <2>2. Tabled' /\ Chains'
    BY <1>1, <1>2, <2>1 DEF Tabled, Chains, EntryRec
  <2>3. ASSUME NEW t \in Table, NEW k \in Keys[t]
        PROVE  First(t, k)'
    <3>1. First(t, k)
      BY DEF AllFirst
    <3>2. CASE t = t0 /\ k = k0
      <4>1. Sources(t, k)' = Sources(t, k) \cup {n}
        BY <1>2, <2>1, <3>2, SourcesSame
      <4> QED
        BY <1>1, <1>3, <1>4, <2>1, <3>1, <3>2, <4>1 DEF First
    <3>3. CASE ~ (t = t0 /\ k = k0)
      <4>1. Sources(t, k)' = Sources(t, k)
        BY <1>2, <2>1, <3>3, SourcesSame
      <4> QED
        BY <2>1, <3>1, <4>1 DEF First
    <3> QED
      BY <3>2, <3>3
  <2> QED
    BY <2>2, <2>3 DEF AllFirst
<1>5. CASE ~ Has(table[t0][b0], k0) /\ failed' = failed \cup {n} /\ table' = table
  <2>1. Tabled' /\ Chains'
    BY <1>1, <1>2, <1>5 DEF Tabled, Chains, EntryRec
  <2>2. \A t \in Table : \A k \in Keys[t] : Sources(t, k)' = Sources(t, k)
    BY <1>2, <1>5, SourcesSame
  <2> QED
    BY <1>5, <2>1, <2>2 DEF AllFirst, First
<1>6. CASE /\ ~ Has(table[t0][b0], k0) /\ failed' = failed
           /\ table' = [table EXCEPT ![t0][b0] = <<[key |-> k0, name |-> n]>> \o @]
  <2> DEFINE e == [key |-> k0, name |-> n]
             chain == table[t0][b0]
  <2>1. PICK c : c = <<e>> \o chain
    OBVIOUS
  <2>2. e \in EntryRec /\ chain \in Seq(EntryRec) /\ e.key = k0 /\ e.name = n
    BY <1>1, <1>2 DEF EntryRec
  <2>3. /\ c \in Seq(EntryRec) /\ c[1] = e /\ 1 \in DOMAIN c
        /\ \A i \in DOMAIN c : i = 1 \/ (i - 1 \in DOMAIN chain /\ c[i] = chain[i - 1])
        /\ \A i \in DOMAIN chain : i + 1 \in DOMAIN c /\ c[i + 1] = chain[i]
    <3> HIDE DEF e, chain
    <3> QED
      BY <2>1, <2>2, Pushed
  <2>4. /\ table'[t0][b0] = c
        /\ \A t \in Table : \A b \in Bucket : ~ (t = t0 /\ b = b0) => table'[t][b] = table[t][b]
        /\ table' \in [Table -> [Bucket -> Seq(EntryRec)]]
    <3>1. table' = [table EXCEPT ![t0][b0] = c]
      BY <1>6, <2>1
    <3> QED
      BY <1>1, <1>2, <2>3, <3>1
  <2>5. Tabled'
    BY <1>1, <1>2, <1>6, <2>4 DEF Tabled, EntryRec
  <2>6. DOMAIN chain \subseteq Int /\ DOMAIN c \subseteq Int
    BY <2>2, <2>3, LenProperties
  <2>7. \A i \in DOMAIN chain : chain[i].key # k0
    BY <1>6 DEF Has
  <2>8. Chains'
    <3>1. ASSUME NEW i \in DOMAIN c, NEW j \in DOMAIN c, c[i].key = c[j].key
          PROVE  i = j
      <4>1. CASE i = 1 \/ j = 1
        BY <2>2, <2>3, <2>7, <3>1, <4>1
      <4>2. CASE i # 1 /\ j # 1
        <5>1. i - 1 = j - 1
          BY <1>1, <2>3, <3>1, <4>2 DEF Chains
        <5> QED
          BY <2>6, <5>1
      <4> QED
        BY <4>1, <4>2
    <3>2. ASSUME NEW t \in Table, NEW b \in Bucket,
                 NEW i \in DOMAIN table'[t][b], NEW j \in DOMAIN table'[t][b],
                 table'[t][b][i].key = table'[t][b][j].key
          PROVE  i = j
      <4>1. CASE t = t0 /\ b = b0
        <5>1. table'[t][b] = c
          BY <2>4, <4>1
        <5> QED
          BY <3>1, <3>2, <5>1
      <4>2. CASE ~ (t = t0 /\ b = b0)
        <5>1. table'[t][b] = table[t][b]
          BY <2>4, <4>2
        <5> QED
          BY <3>2, <5>1 DEF Chains
      <4> QED
        BY <4>1, <4>2
    <3> QED
      BY <3>2 DEF Chains
  <2>9. ASSUME NEW t \in Table, NEW k \in Keys[t]
        PROVE  First(t, k)'
    <3>1. First(t, k) /\ Hash(k) \in Bucket
      BY HashAssumption DEF AllFirst
    <3>2. CASE t = t0 /\ k = k0
      <4>1. Sources(t, k) = {}
        BY <1>6, <3>1, <3>2 DEF First
      <4>2. Sources(t, k)' = {n}
        <5>1. Entry(t, n, k)' /\ n \notin failed'
          BY <1>2, <1>6, <3>2
        <5>2. Sources(t, k)' = Sources(t, k) \cup {n}
          BY <1>2, <1>6, <5>1, SourcesSame
        <5> QED
          BY <4>1, <5>2
      <4>3. table'[t][Hash(k)] = c
        BY <2>4, <3>2
      <4>4. \A i \in DOMAIN c : c[i].key = k0 => c[i].name = n
        BY <2>2, <2>3, <2>7
      <4> QED
        BY <1>1, <2>2, <2>3, <3>2, <4>2, <4>3, <4>4 DEF First, Has
    <3>3. CASE ~ (t = t0 /\ k = k0)
      <4>1. Sources(t, k)' = Sources(t, k)
        BY <1>2, <1>6, <3>3, SourcesSame
      <4>2. CASE t = t0 /\ Hash(k) = b0
        <5>1. table'[t][Hash(k)] = c /\ table[t][Hash(k)] = chain /\ k # k0
          BY <2>4, <3>3, <4>2
        <5>2. \A i \in DOMAIN c : c[i].key = k => i - 1 \in DOMAIN chain /\ c[i] = chain[i - 1]
          BY <2>2, <2>3, <5>1
        <5>3. Has(chain, k) => Has(c, k)
          BY <2>3 DEF Has
        <5> HIDE DEF chain
        <5> QED
          BY <3>1, <4>1, <5>1, <5>2, <5>3 DEF First
      <4>3. CASE ~ (t = t0 /\ Hash(k) = b0)
        <5>1. table'[t][Hash(k)] = table[t][Hash(k)]
          BY <2>4, <3>1, <4>3
        <5> QED
          BY <3>1, <4>1, <5>1 DEF First
      <4> QED
        BY <4>2, <4>3
    <3> QED
      BY <3>2, <3>3
  <2> QED
    BY <2>5, <2>8, <2>9 DEF AllFirst
<1>7. QED
  BY <1>1, <1>4, <1>5, <1>6 DEF New

-----------------------------------------------------------------------------
(* The invariant, line by line.                                            *)
LEMMA LineTypes ==
    ASSUME NEW l \in Line
    PROVE  /\ l.kind \in {"vendor", "class", "tab", "tabtab", "L", "HUT", "other"}
           /\ l.kind \in Stored => l.named \in BOOLEAN
           /\ l.kind \in Stored /\ l.named => l.id \in Int
           /\ l.kind \in Stored /\ l.named => AsInt(l.id) \in Int
<1>1. \A i \in Id : i \in Nat
  BY IdAssumption, WidthAssumption
<1>2. /\ l.kind \in {"vendor", "class", "tab", "tabtab", "L", "HUT", "other"}
      /\ l.kind \in Stored => l.named \in BOOLEAN
      /\ l.kind \in Stored /\ l.named => l.id \in Id
  BY DEF Line, Stored
<1>3. QED
  BY <1>1, <1>2, WidthAssumption DEF AsInt

(* A line keeps the invariant, of whichever kind it is.                    *)
LEMMA ParseStep ==
    ASSUME NamesInv, NEW l \in Line, Parse(l)
    PROVE  NamesInv'
<1>1. Grown(l) /\ Chains /\ Memory /\ NamesType
  BY LineGrows DEF NamesInv, Parse
<1>2. Tabled /\ AllFirst
  BY DEF NamesInv, NamesType, Tabled, AllFirst, EntryRec
<1>3. PICK n \in Nat : n = LineNo /\ n = Len(lines) + 1
  BY <1>1 DEF Grown, LineNo
<1>4. \A t \in Table : \A k : Entry(t, n, k)' <=> Wants(l, t, k)
  BY <1>1, <1>3, Reads
<1>5. /\ l.kind \in {"vendor", "class", "tab", "tabtab", "L", "HUT", "other"}
      /\ l.kind \in Stored => l.named \in BOOLEAN
      /\ l.kind \in Stored /\ l.named => l.id \in Int /\ AsInt(l.id) \in Int
  BY LineTypes
<1>6. lastvendor \in Int /\ lastclass \in Int /\ lastsubclass \in Int /\ None \in Int
  BY <1>1 DEF NamesType, None
<1>7. ASSUME Tabled' /\ Chains' /\ AllFirst', Memory',
             lastvendor' \in Int /\ lastclass' \in Int /\ lastsubclass' \in Int
      PROVE  NamesInv'
  BY <1>1, <1>7 DEF NamesInv, NamesType, Tabled, AllFirst, EntryRec, Grown
<1>8. ASSUME Skip, \A t \in Table : \A k : ~ Wants(l, t, k),
             l.kind \notin {"L", "HUT"}, ~ (l.kind \in {"vendor", "class"} /\ l.named),
             ~ (l.kind = "tab" /\ l.named) \/ lastclass = None
      PROVE  NamesInv'
  <2>1. /\ table' = table /\ failed' = failed
        /\ lastvendor' = lastvendor /\ lastclass' = lastclass /\ lastsubclass' = lastsubclass
    BY <1>8 DEF Skip, lastVars
  <2>2. Tabled' /\ Chains' /\ AllFirst'
    BY <1>1, <1>2, <1>3, <1>4, <1>8, <2>1, Passes
  <2>3. Memory'
    BY <1>1, <1>8, <2>1, AfterBody
  <2> QED
    BY <1>6, <1>7, <2>1, <2>2, <2>3
<1>9. CASE Vendor(l)
  <2>1. CASE l.named
    <3>1. /\ l.kind = "vendor" /\ New("vendor", <<l.id % W16>>)
          /\ lastvendor' = AsInt(l.id) /\ lastclass' = None /\ lastsubclass' = None
      BY <1>9, <2>1 DEF Vendor
    <3>2. "vendor" \in Table /\ <<l.id % W16>> \in Keys["vendor"]
      BY <1>5, <2>1, <3>1, Tables, Rests DEF Stored
    <3>3. \A t \in Table : \A k : Wants(l, t, k) <=> t = "vendor" /\ k = <<l.id % W16>>
      BY <2>1, <3>1, Tables DEF Wants
    <3>4. Tabled' /\ Chains' /\ AllFirst'
      BY <1>1, <1>2, <1>3, <1>4, <3>1, <3>2, <3>3, Stores
    <3>5. Memory'
      BY <1>1, <2>1, <3>1, AfterHeader
    <3> QED
      BY <1>5, <1>6, <1>7, <2>1, <3>1, <3>4, <3>5 DEF Stored
  <2>2. CASE ~ l.named
    <3>1. l.kind = "vendor" /\ Skip
      BY <1>9, <2>2 DEF Vendor
    <3>2. \A t \in Table : \A k : ~ Wants(l, t, k)
      BY <2>2, <3>1, Tables DEF Wants
    <3> QED
      BY <1>8, <2>2, <3>1, <3>2
  <2> QED
    BY <2>1, <2>2
<1>10. CASE Class(l)
  <2>1. CASE l.named
    <3>1. /\ l.kind = "class" /\ New("class", <<l.id % W8>>)
          /\ lastclass' = AsInt(l.id) /\ lastvendor' = None /\ lastsubclass' = None
      BY <1>10, <2>1 DEF Class
    <3>2. "class" \in Table /\ <<l.id % W8>> \in Keys["class"]
      BY <1>5, <2>1, <3>1, Tables, Rests DEF Stored
    <3>3. \A t \in Table : \A k : Wants(l, t, k) <=> t = "class" /\ k = <<l.id % W8>>
      BY <2>1, <3>1, Tables DEF Wants
    <3>4. Tabled' /\ Chains' /\ AllFirst'
      BY <1>1, <1>2, <1>3, <1>4, <3>1, <3>2, <3>3, Stores
    <3>5. Memory'
      BY <1>1, <2>1, <3>1, AfterHeader
    <3> QED
      BY <1>5, <1>6, <1>7, <2>1, <3>1, <3>4, <3>5 DEF Stored
  <2>2. CASE ~ l.named
    <3>1. l.kind = "class" /\ Skip
      BY <1>10, <2>2 DEF Class
    <3>2. \A t \in Table : \A k : ~ Wants(l, t, k)
      BY <2>2, <3>1, Tables DEF Wants
    <3> QED
      BY <1>8, <2>2, <3>1, <3>2
  <2> QED
    BY <2>1, <2>2
<1>11. CASE Tab(l)
  <2>1. l.kind = "tab" /\ l.named \in BOOLEAN
    BY <1>5, <1>11 DEF Tab, Stored
  <2>2. CASE ~ l.named
    <3>1. Skip
      BY <1>11, <2>2 DEF Tab
    <3>2. \A t \in Table : \A k : ~ Wants(l, t, k)
      BY <2>1, <2>2, Tables DEF Wants
    <3> QED
      BY <1>8, <2>1, <2>2, <3>1, <3>2
  <2>3. CASE l.named /\ lastvendor # None
    <3>1. New("product", <<lastvendor % W16, l.id % W16>>) /\ UNCHANGED lastVars
      BY <1>11, <2>3 DEF Tab
    <3>2. /\ lastclass = None /\ lastvendor' = lastvendor /\ lastclass' = lastclass
          /\ lastsubclass' = lastsubclass
      BY <1>1, <2>3, <3>1, Sections DEF lastVars, Grown
    <3>3. "product" \in Table /\ <<lastvendor % W16, l.id % W16>> \in Keys["product"]
      <4>1. lastvendor % W16 \in Word /\ l.id % W16 \in Word
        BY <1>5, <1>6, <2>1, <2>3, Rests DEF Stored
      <4> QED
        BY <4>1, Tables
    <3>4. \A t \in Table : \A k :
            Wants(l, t, k) <=> t = "product" /\ k = <<lastvendor % W16, l.id % W16>>
      BY <2>1, <2>3, <3>2, Tables DEF Wants
    <3>5. Tabled' /\ Chains' /\ AllFirst'
      BY <1>1, <1>2, <1>3, <1>4, <3>1, <3>3, <3>4, Stores
    <3>6. Memory'
      BY <1>1, <2>1, <2>3, <3>2, AfterBody
    <3> QED
      BY <1>6, <1>7, <3>2, <3>5, <3>6
  <2>4. CASE l.named /\ lastvendor = None /\ lastclass # None
    <3>1. /\ New("subclass", <<lastclass % W8, l.id % W8>>)
          /\ lastsubclass' = AsInt(l.id) /\ lastvendor' = lastvendor /\ lastclass' = lastclass
      BY <1>11, <2>4 DEF Tab
    <3>2. "subclass" \in Table /\ <<lastclass % W8, l.id % W8>> \in Keys["subclass"]
      <4>1. lastclass % W8 \in Byte /\ l.id % W8 \in Byte
        BY <1>5, <1>6, <2>1, <2>4, Rests DEF Stored
      <4> QED
        BY <4>1, Tables
    <3>3. \A t \in Table : \A k :
            Wants(l, t, k) <=> t = "subclass" /\ k = <<lastclass % W8, l.id % W8>>
      BY <2>1, <2>4, Tables DEF Wants
    <3>4. Tabled' /\ Chains' /\ AllFirst'
      BY <1>1, <1>2, <1>3, <1>4, <3>1, <3>2, <3>3, Stores
    <3>5. Memory'
      BY <1>1, <2>1, <2>4, <3>1, AfterBody
    <3> QED
      BY <1>5, <1>6, <1>7, <2>1, <2>4, <3>1, <3>4, <3>5 DEF Stored
  <2>5. CASE l.named /\ lastvendor = None /\ lastclass = None
    <3>1. Skip
      BY <1>11, <2>5 DEF Tab
    <3>2. \A t \in Table : \A k : ~ Wants(l, t, k)
      BY <2>1, <2>5, Tables DEF Wants
    <3> QED
      BY <1>8, <2>1, <2>5, <3>1, <3>2
  <2> QED
    BY <2>1, <2>2, <2>3, <2>4, <2>5
<1>12. CASE TabTab(l)
  <2> DEFINE k0 == <<lastclass % W8, lastsubclass % W8, l.id % W8>>
  <2>1. l.kind = "tabtab" /\ l.named \in BOOLEAN
    BY <1>5, <1>12 DEF TabTab, Stored
  <2>2. CASE l.named /\ lastclass # None /\ lastsubclass # None
    <3>1. New("protocol", k0) /\ UNCHANGED lastVars
      BY <1>12, <2>2 DEF TabTab
    <3>2. /\ lastvendor' = lastvendor /\ lastclass' = lastclass
          /\ lastsubclass' = lastsubclass
      BY <3>1 DEF lastVars
    <3>3. "protocol" \in Table /\ k0 \in Keys["protocol"]
      <4>1. lastclass % W8 \in Byte /\ lastsubclass % W8 \in Byte /\ l.id % W8 \in Byte
        BY <1>5, <1>6, <2>1, <2>2, Rests DEF Stored
      <4> QED
        BY <4>1, Tables
    <3>4. \A t \in Table : \A k : Wants(l, t, k) <=> t = "protocol" /\ k = k0
      BY <2>1, <2>2, Tables DEF Wants
    <3>5. Tabled' /\ Chains' /\ AllFirst'
      BY <1>1, <1>2, <1>3, <1>4, <3>1, <3>3, <3>4, Stores
    <3>6. Memory'
      BY <1>1, <2>1, <3>2, AfterBody
    <3> QED
      BY <1>6, <1>7, <3>2, <3>5, <3>6
  <2>3. CASE ~ (l.named /\ lastclass # None /\ lastsubclass # None)
    <3>1. Skip
      BY <1>12, <2>3 DEF TabTab
    <3>2. \A t \in Table : \A k : ~ Wants(l, t, k)
      BY <2>1, <2>3, Tables DEF Wants
    <3> QED
      BY <1>8, <2>1, <3>1, <3>2
  <2> QED
    BY <2>2, <2>3
<1>13. CASE Section(l)
  <2>1. /\ l.kind \in {"L", "HUT"} /\ table' = table /\ failed' = failed
        /\ lastvendor' = None /\ lastclass' = None /\ lastsubclass' = None
    BY <1>13 DEF Section
  <2>2. \A t \in Table : \A k : ~ Wants(l, t, k)
    BY <2>1, Tables DEF Wants
  <2>3. Tabled' /\ Chains' /\ AllFirst'
    BY <1>1, <1>2, <1>3, <1>4, <2>1, <2>2, Passes
  <2>4. Memory'
    BY <1>1, <2>1, AfterHeader
  <2> QED
    BY <1>6, <1>7, <2>1, <2>3, <2>4
<1>14. CASE Other(l)
  <2>1. l.kind = "other" /\ Skip
    BY <1>14 DEF Other
  <2>2. \A t \in Table : \A k : ~ Wants(l, t, k)
    BY <2>1, Tables DEF Wants
  <2> QED
    BY <1>8, <2>1, <2>2
<1>15. QED
  BY <1>9, <1>10, <1>11, <1>12, <1>13, <1>14 DEF Parse

(* The parser's memory is the last complete header above it, and every     *)
(* table has the first name of every key it should have, for any file, any *)
(* hash function that stays within the buckets, and any widths.            *)
THEOREM NamesInvInvariant == NamesSpec => []NamesInv
<1>1. NamesInit => NamesInv
  <2> SUFFICES ASSUME NamesInit
               PROVE  NamesInv
    OBVIOUS
  <2>1. /\ lines = << >> /\ Len(lines) = 0 /\ lines \in Seq(Line)
        /\ << >> \in Seq([key : UNION {Keys[t] : t \in Table}, name : Nat])
    BY EmptySeq DEF NamesInit
  <2>2. NamesType
    BY <2>1 DEF NamesInit, NamesType, None
  <2>3. Memory
    BY <2>1 DEF NamesInit, Memory
  <2>4. \A t \in Table : \A b \in Bucket : table[t][b] = << >>
    BY DEF NamesInit
  <2>5. Chains
    BY <2>4 DEF Chains
  <2>6. ASSUME NEW t \in Table, NEW k \in Keys[t]
        PROVE  First(t, k)
    <3>1. table[t][Hash(k)] = << >>
      BY <2>4, HashAssumption
    <3>2. Sources(t, k) = {}
      BY <2>1 DEF Sources
    <3> QED
      BY <3>1, <3>2 DEF First
  <2> QED
    BY <2>2, <2>3, <2>5, <2>6 DEF NamesInv
<1>2. NamesInv /\ [NamesNext]_nameVars => NamesInv'
  <2> SUFFICES ASSUME NamesInv, [NamesNext]_nameVars
               PROVE  NamesInv'
    OBVIOUS
  <2>1. CASE NamesNext
    BY <2>1, ParseStep DEF NamesNext
  <2>2. CASE UNCHANGED nameVars
    <3>1. /\ lines' = lines /\ failed' = failed /\ table' = table
          /\ lastvendor' = lastvendor /\ lastclass' = lastclass
          /\ lastsubclass' = lastsubclass
      BY <2>2 DEF nameVars, lastVars
    <3>2. NamesType' /\ Chains'
      BY <3>1 DEF NamesInv, NamesType, Chains
    <3>3. /\ \A i, kind : Named(i, kind)' <=> Named(i, kind)
          /\ \A i, kind : Opens(i, kind)' <=> Opens(i, kind)
          /\ \A i : IsHeader(i)' <=> IsHeader(i)
          /\ \A i, w : In(i, w)' = In(i, w)
      BY <3>1 DEF Named, Opens, IsHeader, In
    <3>4. /\ \A i, h : Under(i, h)' <=> Under(i, h)
          /\ \A i, h, s : UnderSub(i, h, s)' <=> UnderSub(i, h, s)
          /\ \A h : InSub(h)' <=> InSub(h)
          /\ LineNo' = LineNo
      BY <3>1, <3>3 DEF Under, UnderSub, InSub, LastTab, LineNo
    <3>5. \A h : InSection(h)' <=> InSection(h)
      BY <3>1, <3>3, <3>4 DEF InSection
    <3>6. Memory'
      BY <3>1, <3>3, <3>4, <3>5 DEF NamesInv, Memory
    <3>7. \A t \in Table : \A i, k : Entry(t, i, k)' <=> Entry(t, i, k)
      BY <3>1, <3>3, <3>4 DEF Entry
    <3>8. \A t \in Table : \A k : Sources(t, k)' = Sources(t, k)
      BY <3>1, <3>7 DEF Sources
    <3>9. ASSUME NEW t \in Table, NEW k \in Keys[t]
          PROVE  First(t, k)'
      BY <3>1, <3>8 DEF NamesInv, First
    <3> QED
      BY <3>2, <3>6, <3>9 DEF NamesInv
  <2> QED
    BY <2>1, <2>2
<1>3. QED
  BY <1>1, <1>2, PTL DEF NamesSpec

(* A look-up gives the name on the first line that has one for its key, in *)
(* the section that line is in, and nothing that is not in the file.       *)
THEOREM LookupAlwaysFirst == NamesSpec => []LookupIsFirst
<1>1. NamesInv => LookupIsFirst
  <2> SUFFICES ASSUME NamesInv, NEW t \in Table, NEW k \in Keys[t]
               PROVE  IF Sources(t, k) = {}
                        THEN Lookup(t, k) = 0
                        ELSE /\ Lookup(t, k) \in Sources(t, k)
                             /\ \A i \in Sources(t, k) : Lookup(t, k) <= i
    BY DEF LookupIsFirst
  <2> DEFINE chain == table[t][Hash(k)]
  <2>1. First(t, k) /\ Hash(k) \in Bucket
    BY HashAssumption DEF NamesInv
  <2>2. \A i, j \in DOMAIN chain : chain[i].key = chain[j].key => i = j
    BY <2>1 DEF NamesInv, Chains
  <2>3. DOMAIN chain = 1..Len(chain) /\ Len(chain) \in Nat
    BY <2>1, LenProperties DEF NamesInv, NamesType
  <2>4. CASE ~ Has(chain, k)
    BY <2>1, <2>4 DEF First, Lookup
  <2>5. CASE Has(chain, k)
    <3>1. PICK i \in DOMAIN chain : chain[i].key = k
      BY <2>5 DEF Has
    <3>2. \A j \in 1..(i - 1) : chain[j].key # k
      <4> SUFFICES ASSUME NEW j \in 1..(i - 1)
                   PROVE  chain[j].key # k
        OBVIOUS
      <4>1. j \in DOMAIN chain /\ j # i
        BY <2>3, <3>1
      <4> QED
        BY <2>2, <3>1, <4>1
    <3>3. i = CHOOSE x \in DOMAIN chain :
                chain[x].key = k /\ \A j \in 1..(x - 1) : chain[j].key # k
      BY <2>2, <3>1, <3>2
    <3>4. Lookup(t, k) = chain[i].name
      BY <2>5, <3>3 DEF Lookup
    <3>5. /\ chain[i].name \in Sources(t, k)
          /\ \A s \in Sources(t, k) : chain[i].name <= s
      BY <2>1, <3>1 DEF First
    <3> QED
      BY <3>4, <3>5
  <2> QED
    BY <2>4, <2>5
<1>2. QED
  BY <1>1, NamesInvInvariant, PTL
=============================================================================
