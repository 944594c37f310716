\* 0x22001e, 0x122001e, which reaches the same register, 0x96001e of the same device,
\* and a Clause 22 register.  Values can be restored: Fresh is one of Vals.
SPECIFICATION FairSpec
CONSTANTS
  Packed = {2228254, 19005470, 9830430}
  Regs22 = {9}
  Vals = {1, 3}
  Fresh = 3
  MaxLate = 1
INVARIANTS ReadsBack MdioInv
PROPERTY CallReturns
