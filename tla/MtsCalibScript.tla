--------------------------- MODULE MtsCalibScript ---------------------------
(***************************************************************************)
(* The steps of mts_phy_calibration and mts_phy_wakeup (drivers_mts/mts.c) *)
(* in the order of the code, as MtsCalib carries them out.  Constants that *)
(* are written are left out, as are the registers of BAR0 and of the glue  *)
(* that only the hardware looks at.                                        *)
(***************************************************************************)
EXTENDS Integers, Sequences

CONSTANT Turns  \* bound: stands for the 100, 66 * 1000, 5000, 100 and 201 turns of the loops

Word == 0..15   \* the bits of a register

\* The register a Clause 45 call reaches, a packed address, the one mts_mdio_page_read
\* reaches, and a Clause 22 register.
C45(devad, reg) == (devad % 32) + 32 * (reg % 65536)
Packed(p) == C45(p % 256, p \div 256)
PageReg(p) == C45(p, 0)
Clause22(r) == 32 * 65536 + (r % 32)
NoReg == -1
Selector == PageReg(31)

Step(op, reg, v, keep, data) ==
  << [op |-> op, reg |-> reg, var |-> v, keep |-> keep, data |-> data] >>
Write(r) == Step("write", r, "other", {}, 0)
Read(r) == Step("read", r, "other", {}, 0)
Select(p) == Step("select", Selector, "other", {}, p)
Poll(turns) == Step("loop", NoReg, "other", {}, turns)
Iso(op) == Step(op, NoReg, "other", {}, 0)
Rmw(v, r, keep, op) == Step("read", r, v, {}, 0) \o Step(op, r, v, keep, 0)
Modify(r, keep) == Rmw("val16", r, keep, "modify")
Merge(r, keep) == Rmw("val16", r, keep, "merge")

-----------------------------------------------------------------------------
\* mts_phy_wakeup, of which step first is the first: it returns early when the
\* status cannot be read.
Wakeup(first) ==
  LET rest == Write(C45(1, 0)) \o Write(C45(1, 0))
              \o Read(C45(1, 0)) \o Read(C45(1, 1)) \o Read(C45(1, 2)) \o Read(C45(1, 3))
  IN  Step("gate", C45(1, 0), "other", {}, first + 1 + Len(rest)) \o rest

\* 0x174001e and 0x175001e: the high byte, then the low byte.
Halves(p) == Modify(Packed(p), 0..7) \o Modify(Packed(p), 8..15)

\* 0x172001e and 0x173001e: the masks 0xc0ff and 0xffc0.
Fields(p) == Modify(Packed(p), (0..7) \cup {14, 15}) \o Modify(Packed(p), 6..15)

\* 0x12001e, 0x16001e to 0x22001e, 0x96001e, 0x37001e.
FullWrites ==
  Write(Packed(\h12001e)) \o Write(Packed(\h16001e)) \o Write(Packed(\h17001e))
  \o Write(Packed(\h18001e)) \o Write(Packed(\h19001e)) \o Write(Packed(\h20001e))
  \o Write(Packed(\h21001e)) \o Write(Packed(\h22001e)) \o Write(Packed(\h96001e))
  \o Write(Packed(\h37001e))

\* 0x39001e, 0x107001f, 0x171001e, 0x39001e twice, 0x171001e.
Toggles ==
  Modify(Packed(\h39001e), Word \ {11, 14}) \o Modify(Packed(\h107001f), Word \ {12})
  \o Modify(Packed(\h171001e), Word \ {7, 8})
  \o Modify(Packed(\h39001e), Word \ {13}) \o Modify(Packed(\h39001e), Word \ {13})
  \o Modify(Packed(\h171001e), Word \ {7, 8})

\* The analogue tuning: 0xe0001e and 0x115001f first.
Tuning ==
  Write(Packed(\he0001e)) \o Write(Packed(\h115001f))
  \o Halves(\h174001e) \o Halves(\h175001e) \o Fields(\h172001e) \o Fields(\h173001e)
  \o FullWrites \o Toggles

\* Page sequences 1, 2 and 4 to 7: val16 is copied to a variable of its own and not
\* touched before the page is restored from that.
OnPage ==
  Step("read", Selector, "val16", {}, 0) \o Select(\h52b5)
  \o Write(PageReg(17)) \o Write(PageReg(18)) \o Write(PageReg(16))
  \o Step("restore", Selector, "val16", {}, 0)

\* Page sequence 3.
OnPage3 == Select(3) \o Write(PageReg(28)) \o Select(0)

\* From 0x189001e on: 0x122001e and 0x268001f between the sequences.
PageSequences ==
  Write(Packed(\h189001e)) \o OnPage \o OnPage \o OnPage3
  \o Write(Packed(\h122001e)) \o OnPage \o OnPage
  \o Write(Packed(\h268001f)) \o OnPage \o OnPage

\* Page 4, 0x3c0007, 0x33001e and page 0.
Merges ==
  Merge(PageReg(4), Word \ {10, 11}) \o Write(Packed(\h3c0007))
  \o Merge(Packed(\h33001e), Word \ {12}) \o Merge(PageReg(0), Word \ {9, 12})

\* The indexed table of 66 entries, and the wait for bit 0 of BAR0[0x1d0].
Table == Poll(Turns) \o Poll(Turns)

\* The hold is released; the trigger of BAR0[0x1c] is polled; Clause 22 auto-negotiation.
Release ==
  Poll(Turns)
  \o Rmw("r9", Clause22(9), Word \ {9}, "merge") \o Rmw("r4", Clause22(4), Word \ {7, 8}, "merge")
  \o Write(Clause22(0)) \o Read(Clause22(0))

\* The poll for bit 2 and the diagnosis.
Ready == Poll(Turns) \o Read(C45(1, 0)) \o Read(Clause22(0))

\* mts_phy_calibration: the power-on command to the syscon, the wake-up, BAR0[0x200] = 0,
\* two reads, the tuning if the efuse asks for it, and the rest.
CalibScript ==
  LET wake == Poll(Turns) \o Wakeup(2)
      start == wake \o Iso("connect") \o Read(C45(2, 0)) \o Read(C45(3, 0))
      tuned == start \o Step("efuse", NoReg, "other", {}, Len(start) + 2 + Len(Tuning)) \o Tuning
  IN  tuned \o PageSequences \o Merges \o Table \o Release \o Ready \o Iso("isolate")
=============================================================================
