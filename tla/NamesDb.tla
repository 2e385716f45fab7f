------------------------------- MODULE NamesDb -------------------------------
(***************************************************************************)
(* The database of names of vendors, products and classes: the parser of   *)
(* usb.ids, the hash tables it fills and the look-ups in them              *)
(* (src/src/libs/names.c, and its use in usbip_common.c).                  *)
(*                                                                         *)
(* The file is any sequence of lines, read one after the other.  A line is *)
(* what the parser tells apart of it; its name is its number.  Numbers are *)
(* kept in their widths, which are parameters: 2^8, 2^16 and 2^32.         *)
(***************************************************************************)
EXTENDS Integers, Sequences

CONSTANTS W8, W16, W32,  \* how many values u_int8_t, u_int16_t and unsigned have
          Id,            \* the numbers in the file
          Bucket,        \* the buckets of a table
          Hash(_),       \* hashnum of a key
          MaxLines       \* bound on the lines of the file

ASSUME WidthAssumption == W8 \in Nat \ {0} /\ W16 \in Nat \ {0} /\ W32 \in Nat \ {0}
ASSUME IdAssumption    == Id \subseteq 0..(W32 - 1)
ASSUME LinesAssumption == MaxLines \in Nat

(* A vendor, class, product or subclass (tab), or protocol (two tabs), of  *)
(* which the name may be missing; the start of the languages or of the HID *)
(* usages; and everything else, which the parser passes over.              *)
Stored == {"vendor", "class", "tab", "tabtab"}
Line   == [kind : Stored, named : {TRUE}, id : Id]
            \cup [kind : Stored, named : {FALSE}]
            \cup [kind : {"L", "HUT", "other"}]

Byte == 0..(W8 - 1)
Word == 0..(W16 - 1)
Keys == [vendor  |-> {<<v>> : v \in Word},
         product |-> {<<v, p>> : v \in Word, p \in Word},
         class    |-> {<<c>> : c \in Byte},
         subclass |-> {<<c, s>> : c \in Byte, s \in Byte},
         protocol |-> {<<c, s, p>> : c \in Byte, s \in Byte, p \in Byte}]
Table == DOMAIN Keys

ASSUME HashAssumption == \A t \in Table : \A k \in Keys[t] : Hash(k) \in Bucket

VARIABLES
    lines,        \* the lines read so far
    failed,       \* those for which my_malloc failed
    table,        \* table[t][b]: chain of entries, each a key and a name
    lastvendor,   \* the vendor, class, subclass, list of usages or of
    lastclass,    \*   languages the parser is in, or None
    lastsubclass,
    lasthut,
    lastlang

lastVars == <<lastvendor, lastclass, lastsubclass, lasthut, lastlang>>
nameVars == <<lines, failed, table, lastVars>>

None == 0 - 1

(* unsigned assigned to int.                                               *)
AsInt(u) == IF 2 * u >= W32 THEN u - W32 ELSE u

NamesInit ==
    /\ lines  = << >>
    /\ failed = {}
    /\ table  = [t \in Table |-> [b \in Bucket |-> << >>]]
    /\ lastvendor = None /\ lastclass = None /\ lastsubclass = None
    /\ lasthut = None /\ lastlang = None

-----------------------------------------------------------------------------
(* The tables.                                                             *)
Has(chain, k) == \E i \in DOMAIN chain : chain[i].key = k

(* names_vendor and its like: the first of the chain, or NULL (0).         *)
Lookup(t, k) ==
    LET chain == table[t][Hash(k)] IN
    IF Has(chain, k)
      THEN chain[CHOOSE i \in DOMAIN chain :
                   chain[i].key = k /\ \A j \in 1..(i - 1) : chain[j].key # k].name
      ELSE 0

NewReplaces(t, k) ==         \* mutant: the duplicate goes in front of the chain
    /\ table' = [table EXCEPT ![t][Hash(k)] =
                   <<[key |-> k, name |-> Len(lines) + 1]>> \o @]
    /\ UNCHANGED failed

(* new_vendor and its like, for the line being read: a duplicate is        *)
(* refused; my_malloc may fail.                                            *)
New(t, k) ==
    IF Has(table[t][Hash(k)], k)
      THEN UNCHANGED <<table, failed>>
      ELSE \/ /\ table' = [table EXCEPT ![t][Hash(k)] =
                             <<[key |-> k, name |-> Len(lines) + 1]>> \o @]
              /\ UNCHANGED failed
           \/ /\ failed' = failed \cup {Len(lines) + 1}
              /\ UNCHANGED table

-----------------------------------------------------------------------------
(* parse, one line at a time.                                              *)

(* An error is printed and the line passed over.                           *)
Skip == UNCHANGED <<failed, table, lastVars>>

Vendor(l) ==
    /\ l.kind = "vendor"
    /\ IF l.named
         THEN /\ New("vendor", <<l.id % W16>>)
              /\ lastvendor' = AsInt(l.id)
              /\ lastclass' = None /\ lastsubclass' = None
              /\ lasthut' = None /\ lastlang' = None
         ELSE Skip

ClassInVendor(l) ==          \* mutant: lastvendor is not reset
    /\ l.kind = "class"
    /\ IF l.named
         THEN /\ New("class", <<l.id % W8>>)
              /\ lastclass' = AsInt(l.id)
              /\ lastsubclass' = None
              /\ lasthut' = None /\ lastlang' = None
              /\ UNCHANGED lastvendor
         ELSE Skip

Class(l) ==
    /\ l.kind = "class"
    /\ IF l.named
         THEN /\ New("class", <<l.id % W8>>)
              /\ lastclass' = AsInt(l.id)
              /\ lastvendor' = None /\ lastsubclass' = None
              /\ lasthut' = None /\ lastlang' = None
         ELSE Skip

(* A product of the vendor, a subclass of the class, or nothing that is    *)
(* stored.                                                                 *)
Tab(l) ==
    /\ l.kind = "tab"
    /\ CASE ~ l.named -> Skip
         [] l.named /\ lastvendor # None ->
              /\ New("product", <<lastvendor % W16, l.id % W16>>)
              /\ UNCHANGED lastVars
         [] l.named /\ lastvendor = None /\ lastclass # None ->
              /\ New("subclass", <<lastclass % W8, l.id % W8>>)
              /\ lastsubclass' = AsInt(l.id)
              /\ UNCHANGED <<lastvendor, lastclass, lasthut, lastlang>>
         [] OTHER -> Skip

TabTab(l) ==
    /\ l.kind = "tabtab"
    /\ IF l.named /\ lastclass # None /\ lastsubclass # None
         THEN /\ New("protocol", <<lastclass % W8, lastsubclass % W8, l.id % W8>>)
              /\ UNCHANGED lastVars
         ELSE Skip

Section(l) ==
    /\ l.kind \in {"L", "HUT"}
    /\ lastlang' = IF l.kind = "L" THEN 1 ELSE None
    /\ lasthut'  = IF l.kind = "HUT" THEN 1 ELSE None
    /\ lastvendor' = None /\ lastclass' = None /\ lastsubclass' = None
    /\ UNCHANGED <<failed, table>>

Other(l) == l.kind = "other" /\ Skip

Parse(l) ==
    /\ Len(lines) < MaxLines
    /\ lines' = Append(lines, l)
    /\ Vendor(l) \/ Class(l) \/ Tab(l) \/ TabTab(l) \/ Section(l) \/ Other(l)

NamesNext == \E l \in Line : Parse(l)
NamesSpec == NamesInit /\ [][NamesNext]_nameVars

-----------------------------------------------------------------------------
(* What the file says, without the parser's memory: a line belongs to the  *)
(* last header above it that is complete.                                  *)
Named(i, kind) == lines[i].kind = kind /\ lines[i].named
IsHeader(i)    == lines[i].kind \in {"L", "HUT"} \/ Named(i, "vendor") \/ Named(i, "class")
Under(i, h)    == /\ h \in 1..(i - 1) /\ IsHeader(h)
                  /\ \A j \in (h + 1)..(i - 1) : ~ IsHeader(j)

(* A number that reads as -1 opens no section.                             *)
Opens(h, kind) == Named(h, kind) /\ AsInt(lines[h].id) # None
In(h, w)       == AsInt(lines[h].id) % w

(* The subclass above line i, of the class at h.                           *)
UnderSub(i, h, s) ==
    /\ s \in (h + 1)..(i - 1)
    /\ Opens(s, "tab") /\ \A j \in (s + 1)..(i - 1) : ~ Named(j, "tab")

Entry(t, i, k) ==
    CASE t = "vendor"   -> Named(i, "vendor") /\ k = <<lines[i].id % W16>>
      [] t = "class"    -> Named(i, "class") /\ k = <<lines[i].id % W8>>
      [] t = "product"  ->
           /\ Named(i, "tab")
           /\ \E h \in 1..(i - 1) : /\ Under(i, h) /\ Opens(h, "vendor")
                                    /\ k = <<In(h, W16), lines[i].id % W16>>
      [] t = "subclass" ->
           /\ Named(i, "tab")
           /\ \E h \in 1..(i - 1) : /\ Under(i, h) /\ Opens(h, "class")
                                    /\ k = <<In(h, W8), lines[i].id % W8>>
      [] OTHER          ->
           /\ Named(i, "tabtab")
           /\ \E h, s \in 1..(i - 1) :
                /\ Under(i, h) /\ Opens(h, "class") /\ UnderSub(i, h, s)
                /\ k = <<In(h, W8), In(s, W8), lines[i].id % W8>>

(* The lines that give k a name, but for those there was no memory for.    *)
Sources(t, k) == {i \in 1..Len(lines) : Entry(t, i, k) /\ i \notin failed}

(* A look-up gives the name on the first line that has one for its key, in *)
(* the section the line is in, whatever other keys share the bucket, and   *)
(* finds nothing that is not in the file (parse, new_vendor, names_vendor). *)
LookupIsFirst ==
    \A t \in Table : \A k \in Keys[t] :
        IF Sources(t, k) = {}
          THEN Lookup(t, k) = 0
          ELSE /\ Lookup(t, k) \in Sources(t, k)
               /\ \A i \in Sources(t, k) : Lookup(t, k) <= i
=============================================================================
