--------------------------- MODULE UsbDescriptors ---------------------------
(***************************************************************************)
(* The descriptors of bluetrum_usb.h.  A table is a sequence of parts, a   *)
(* part what a host reads in it: its length, its kind, and of an interface *)
(* or endpoint descriptor its number, what it announces and its size.      *)
(***************************************************************************)
EXTENDS Naturals, Sequences, FiniteSets

Part(n, k, id, of) == [len |-> n, kind |-> k, id |-> id, announces |-> of]

Plain(n, k) == Part(n, k, 0, 0)
ConfigPart(interfaces) == Part(9, "config", 1, interfaces)
InterfacePart(i, endpoints) == Part(9, "interface", i, endpoints)
EndpointPart(address, size) == Part(7, "endpoint", address, size)

DeviceDesc == << Part(18, "device", 0, 1) >>

\* ep1_in announces packets of 64 bytes; the bank and UTXMAXP hold 32.
ConfDesc ==
  << ConfigPart(2),
     InterfacePart(0, 1),
       Plain(5, "cdc_header"), Plain(4, "cdc_acm"), Plain(5, "cdc_union"),
       EndpointPart(130, 8),
     InterfacePart(1, 2),
       EndpointPart(1, 32), EndpointPart(129, 64) >>

\* Two bytes of header and two of each character, or of the language.
LangDesc == << Plain(2 + 2, "string") >>
MfrDesc  == << Plain(2 + 2 * 8, "string") >>
ProdDesc == << Plain(2 + 2 * 7, "string") >>

\* What GET_DESCRIPTOR finds.  iSerialNumber of the device descriptor names
\* string 3, which no table holds.
Descriptors == {"device", "config", "string0", "string1", "string2"}
Missing == {"string3", "qualifier"}

Table(d) == CASE d = "device"  -> DeviceDesc
              [] d = "config"  -> ConfDesc
              [] d = "string0" -> LangDesc
              [] d = "string1" -> MfrDesc
              [] d = "string2" -> ProdDesc

\* The bytes of the first k parts.
LengthTo(t, k) ==
  LET sum[i \in 0..Len(t)] == IF i = 0 THEN 0 ELSE sum[i - 1] + t[i].len
  IN  sum[k]

TableLength(d) == LengthTo(Table(d), Len(Table(d)))

\* The parts a host finds whole in the first n bytes of a table.
PartsIn(t, n) == {k \in 1..Len(t) : LengthTo(t, k) <= n}

\* A configuration the host can use: as many interfaces as announced, and
\* after each, before the next, as many endpoints.
Usable(t, have) ==
  LET Interfaces == {k \in have : t[k].kind = "interface"}
      Within(k) == {j \in have : /\ j > k /\ t[j].kind = "endpoint"
                                 /\ \A i \in Interfaces : i > k => j < i}
  IN  /\ 1 \in have
      /\ Cardinality(Interfaces) = t[1].announces
      /\ \A k \in Interfaces : Cardinality(Within(k)) = t[k].announces
=============================================================================
