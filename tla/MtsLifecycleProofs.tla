-------------------------- MODULE MtsLifecycleProofs --------------------------
(***************************************************************************)
(* Proofs about MtsLifecycle, for every set of stages, of parameters, of   *)
(* probe steps that may fail and of sysfs stores that may be called.       *)
(***************************************************************************)
EXTENDS MtsLifecycle, TLAPS

\* The whole inductive invariant.
FullInv == LifeInv /\ StoreInv /\ NullRings

LEMMA StageRange ==
  ASSUME LifeTypeOK PROVE stage \in 0 .. 4
  BY LifeAssumption DEF LifeTypeOK

LEMMA LifeInit ==
  ASSUME Init PROVE FullInv
  <1>1. LifeTypeOK
    BY DEF Init, LifeTypeOK
  <1>2. HeldInv /\ NetInv /\ MasterInv
    BY DEF Init, HeldInv, NetInv, MasterInv, At, HasDevice, HasRegions, HasNetdev, HasRegs,
           HasRings, HasVectors, HasIrq, Registered4, Late, Removing
  <1>3. StoreInv /\ NullRings
    BY DEF Init, StoreInv, NullRings, At
  <1>4. QED
    BY <1>1, <1>2, <1>3 DEF LifeInv, FullInv

\* Every step keeps the types.
LEMMA LifeTypes ==
  ASSUME FullInv, Life PROVE LifeTypeOK'
  <1>0. stage \in 0 .. 4
    BY StageRange DEF FullInv, LifeInv
  <1> USE <1>0 DEF FullInv, LifeInv, param, net, hw, user, LifeTypeOK, ProbeSteps, Unwinding, Removing, Resources
  <1>1. CASE Bind \/ Unbind
    BY <1>1 DEF Bind, Unbind
  <1>2. CASE ProbeEnable \/ ProbeRegions \/ ProbeNetdev
    BY <1>2 DEF ProbeEnable, Acquire, ProbeRegions, ProbeNetdev
  <1>3. CASE ProbeMap
    BY <1>3 DEF ProbeMap, Acquire
  <1>4. CASE ProbeData
    BY <1>4 DEF ProbeData
  <1>5. CASE ProbeMask
    BY <1>5 DEF ProbeMask, MacStop
  <1>6. CASE ProbeRings
    BY <1>6 DEF ProbeRings, Acquire
  <1>7. CASE ProbeProgram
    BY <1>7 DEF ProbeProgram
  <1>8. CASE ProbeMac \/ ProbeMaster
    BY <1>8 DEF ProbeMac, ProbeMaster
  <1>9. CASE ProbeVectors \/ ProbeIrq
    BY <1>9 DEF ProbeVectors, Acquire, Leaves, ProbeIrq
  <1>10. CASE ProbeRegister
    BY <1>10 DEF ProbeRegister, Leaves
  <1>11. CASE FreeIrq \/ FreeVectors \/ FreeRingsOnError
    BY <1>11 DEF FreeIrq, Release, FreeVectors, FreeRingsOnError, FreedRing
  <1>12. CASE Unmap \/ FreeNetdev \/ ReleaseRegions \/ DisableDevice \/ Cleanup
    BY <1>12 DEF Unmap, Release, FreeNetdev, ReleaseRegions, DisableDevice, Cleanup
  <1>13. CASE RemoveFiles \/ RemoveDrain
    BY <1>13 DEF RemoveFiles, RemoveDrain
  <1>14. CASE RemoveUnregister
    BY <1>14 DEF RemoveUnregister, MacStop
  <1>15. CASE RemoveMacStop
    BY <1>15 DEF RemoveMacStop, MacStop
  <1>16. CASE RemoveFreeRings
    BY <1>16 DEF RemoveFreeRings, Release, FreedRing
  <1>17. CASE Open \/ Stop
    BY <1>17 DEF Open, Stop, MacStop
  <1>18. CASE OpEnd
    BY <1>18 DEF OpEnd
  <1>19. CASE \E k \in env.ops : OpStart(k)
    BY <1>19 DEF OpStart
  <1> QED
    BY <1>1, <1>2, <1>3, <1>4, <1>5, <1>6, <1>7, <1>8, <1>9, <1>10, <1>11, <1>12, <1>13, <1>14, <1>15, <1>16, <1>17, <1>18, <1>19
       DEF Life, Probe, Unwind, Remove

\* What is held at every step of the probe, the goto chain and the remove.
LEMMA LifeHeld ==
  ASSUME FullInv, Life PROVE HeldInv'
  <1>0. stage \in 0 .. 4
    BY StageRange DEF FullInv, LifeInv
  <1> USE <1>0 DEF FullInv, LifeInv, param, net, hw, user, LifeTypeOK, HeldInv, NetInv, At, HasDevice, HasRegions, HasNetdev, HasRegs, HasRings, HasVectors, HasIrq, Registered4, Late, Removing
  <1>1. CASE Bind \/ Unbind
    BY <1>1 DEF Bind, Unbind
  <1>2. CASE ProbeEnable \/ ProbeRegions \/ ProbeNetdev
    BY <1>2 DEF ProbeEnable, Acquire, ProbeRegions, ProbeNetdev
  <1>3. CASE ProbeMap
    BY <1>3 DEF ProbeMap, Acquire
  <1>4. CASE ProbeData
    BY <1>4 DEF ProbeData
  <1>5. CASE ProbeMask
    BY <1>5 DEF ProbeMask, MacStop
  <1>6. CASE ProbeRings
    BY <1>6 DEF ProbeRings, Acquire
  <1>7. CASE ProbeProgram
    BY <1>7 DEF ProbeProgram
  <1>8. CASE ProbeMac \/ ProbeMaster
    BY <1>8 DEF ProbeMac, ProbeMaster
  <1>9. CASE ProbeVectors \/ ProbeIrq
    BY <1>9 DEF ProbeVectors, Acquire, Leaves, ProbeIrq
  <1>10. CASE ProbeRegister
    BY <1>10 DEF ProbeRegister, Leaves
  <1>11. CASE FreeIrq \/ FreeVectors \/ FreeRingsOnError
    BY <1>11 DEF FreeIrq, Release, FreeVectors, FreeRingsOnError, FreedRing
  <1>12. CASE Unmap \/ FreeNetdev \/ ReleaseRegions \/ DisableDevice \/ Cleanup
    BY <1>12 DEF Unmap, Release, FreeNetdev, ReleaseRegions, DisableDevice, Cleanup
  <1>13. CASE RemoveFiles \/ RemoveDrain
    BY <1>13 DEF RemoveFiles, RemoveDrain
  <1>14. CASE RemoveUnregister
    BY <1>14 DEF RemoveUnregister, MacStop
  <1>15. CASE RemoveMacStop
    BY <1>15 DEF RemoveMacStop, MacStop
  <1>16. CASE RemoveFreeRings
    BY <1>16 DEF RemoveFreeRings, Release, FreedRing
  <1>17. CASE Open \/ Stop
    BY <1>17 DEF Open, Stop, MacStop
  <1>18. CASE OpEnd
    BY <1>18 DEF OpEnd
  <1>19. CASE \E k \in env.ops : OpStart(k)
    BY <1>19 DEF OpStart
  <1> QED
    BY <1>1, <1>2, <1>3, <1>4, <1>5, <1>6, <1>7, <1>8, <1>9, <1>10, <1>11, <1>12, <1>13, <1>14, <1>15, <1>16, <1>17, <1>18, <1>19
       DEF Life, Probe, Unwind, Remove

\* The net_device is registered exactly while a stage 4 driver is bound.
LEMMA LifeNet ==
  ASSUME FullInv, Life PROVE NetInv'
  <1>0. stage \in 0 .. 4
    BY StageRange DEF FullInv, LifeInv
  <1> USE <1>0 DEF FullInv, LifeInv, param, net, hw, user, LifeTypeOK, NetInv, At, Registered4, Late, Removing
  <1>1. CASE Bind \/ Unbind
    BY <1>1 DEF Bind, Unbind
  <1>2. CASE ProbeEnable \/ ProbeRegions \/ ProbeNetdev
    BY <1>2 DEF ProbeEnable, Acquire, ProbeRegions, ProbeNetdev
  <1>3. CASE ProbeMap
    BY <1>3 DEF ProbeMap, Acquire
  <1>4. CASE ProbeData
    BY <1>4 DEF ProbeData
  <1>5. CASE ProbeMask
    BY <1>5 DEF ProbeMask, MacStop
  <1>6. CASE ProbeRings
    BY <1>6 DEF ProbeRings, Acquire
  <1>7. CASE ProbeProgram
    BY <1>7 DEF ProbeProgram
  <1>8. CASE ProbeMac \/ ProbeMaster
    BY <1>8 DEF ProbeMac, ProbeMaster
  <1>9. CASE ProbeVectors \/ ProbeIrq
    BY <1>9 DEF ProbeVectors, Acquire, Leaves, ProbeIrq
  <1>10. CASE ProbeRegister
    BY <1>10 DEF ProbeRegister, Leaves
  <1>11. CASE FreeIrq \/ FreeVectors \/ FreeRingsOnError
    BY <1>11 DEF FreeIrq, Release, FreeVectors, FreeRingsOnError, FreedRing
  <1>12. CASE Unmap \/ FreeNetdev \/ ReleaseRegions \/ DisableDevice \/ Cleanup
    BY <1>12 DEF Unmap, Release, FreeNetdev, ReleaseRegions, DisableDevice, Cleanup
  <1>13. CASE RemoveFiles \/ RemoveDrain
    BY <1>13 DEF RemoveFiles, RemoveDrain
  <1>14. CASE RemoveUnregister
    BY <1>14 DEF RemoveUnregister, MacStop
  <1>15. CASE RemoveMacStop
    BY <1>15 DEF RemoveMacStop, MacStop
  <1>16. CASE RemoveFreeRings
    BY <1>16 DEF RemoveFreeRings, Release, FreedRing
  <1>17. CASE Open \/ Stop
    BY <1>17 DEF Open, Stop, MacStop
  <1>18. CASE OpEnd
    BY <1>18 DEF OpEnd
  <1>19. CASE \E k \in env.ops : OpStart(k)
    BY <1>19 DEF OpStart
  <1> QED
    BY <1>1, <1>2, <1>3, <1>4, <1>5, <1>6, <1>7, <1>8, <1>9, <1>10, <1>11, <1>12, <1>13, <1>14, <1>15, <1>16, <1>17, <1>18, <1>19
       DEF Life, Probe, Unwind, Remove

\* Who set the bus master bit.
LEMMA LifeMaster ==
  ASSUME FullInv, Life PROVE MasterInv'
  <1>0. stage \in 0 .. 4
    BY StageRange DEF FullInv, LifeInv
  <1> USE <1>0 DEF FullInv, LifeInv, param, net, hw, user, LifeTypeOK, MasterInv, NetInv, StoreInv, Pci, At, HasDevice, HasRegions, HasNetdev, HasRegs, HasRings, HasVectors, HasIrq, Registered4, Late, Removing
  <1>1. CASE Bind \/ Unbind
    BY <1>1 DEF Bind, Unbind
  <1>2. CASE ProbeEnable \/ ProbeRegions \/ ProbeNetdev
    BY <1>2 DEF ProbeEnable, Acquire, ProbeRegions, ProbeNetdev
  <1>3. CASE ProbeMap
    BY <1>3 DEF ProbeMap, Acquire
  <1>4. CASE ProbeData
    BY <1>4 DEF ProbeData
  <1>5. CASE ProbeMask
    BY <1>5 DEF ProbeMask, MacStop
  <1>6. CASE ProbeRings
    BY <1>6 DEF ProbeRings, Acquire
  <1>7. CASE ProbeProgram
    BY <1>7 DEF ProbeProgram
  <1>8. CASE ProbeMac \/ ProbeMaster
    BY <1>8 DEF ProbeMac, ProbeMaster
  <1>9. CASE ProbeVectors \/ ProbeIrq
    BY <1>9 DEF ProbeVectors, Acquire, Leaves, ProbeIrq
  <1>10. CASE ProbeRegister
    BY <1>10 DEF ProbeRegister, Leaves
  <1>11. CASE FreeIrq \/ FreeVectors \/ FreeRingsOnError
    BY <1>11 DEF FreeIrq, Release, FreeVectors, FreeRingsOnError, FreedRing
  <1>12. CASE Unmap \/ FreeNetdev \/ ReleaseRegions \/ DisableDevice \/ Cleanup
    BY <1>12 DEF Unmap, Release, FreeNetdev, ReleaseRegions, DisableDevice, Cleanup
  <1>13. CASE RemoveFiles \/ RemoveDrain
    BY <1>13 DEF RemoveFiles, RemoveDrain
  <1>14. CASE RemoveUnregister
    BY <1>14 DEF RemoveUnregister, MacStop
  <1>15. CASE RemoveMacStop
    BY <1>15 DEF RemoveMacStop, MacStop
  <1>16. CASE RemoveFreeRings
    BY <1>16 DEF RemoveFreeRings, Release, FreedRing
  <1>17. CASE Open \/ Stop
    BY <1>17 DEF Open, Stop, MacStop
  <1>18. CASE OpEnd
    BY <1>18 DEF OpEnd
  <1>19. CASE \E k \in env.ops : OpStart(k)
    BY <1>19 DEF OpStart
  <1> QED
    BY <1>1, <1>2, <1>3, <1>4, <1>5, <1>6, <1>7, <1>8, <1>9, <1>10, <1>11, <1>12, <1>13, <1>14, <1>15, <1>16, <1>17, <1>18, <1>19
       DEF Life, Probe, Unwind, Remove

\* When a sysfs store can be entered, and when one can be under way.
LEMMA LifeStore ==
  ASSUME FullInv, Life PROVE StoreInv'
  <1>0. stage \in 0 .. 4
    BY StageRange DEF FullInv, LifeInv
  <1> USE <1>0 DEF FullInv, LifeInv, param, net, hw, user, LifeTypeOK, StoreInv, NetInv, At, Late, Registered4, Removing
  <1>1. CASE Bind \/ Unbind
    BY <1>1 DEF Bind, Unbind
  <1>2. CASE ProbeEnable \/ ProbeRegions \/ ProbeNetdev
    BY <1>2 DEF ProbeEnable, Acquire, ProbeRegions, ProbeNetdev
  <1>3. CASE ProbeMap
    BY <1>3 DEF ProbeMap, Acquire
  <1>4. CASE ProbeData
    BY <1>4 DEF ProbeData
  <1>5. CASE ProbeMask
    BY <1>5 DEF ProbeMask, MacStop
  <1>6. CASE ProbeRings
    BY <1>6 DEF ProbeRings, Acquire
  <1>7. CASE ProbeProgram
    BY <1>7 DEF ProbeProgram
  <1>8. CASE ProbeMac \/ ProbeMaster
    BY <1>8 DEF ProbeMac, ProbeMaster
  <1>9. CASE ProbeVectors \/ ProbeIrq
    BY <1>9 DEF ProbeVectors, Acquire, Leaves, ProbeIrq
  <1>10. CASE ProbeRegister
    BY <1>10 DEF ProbeRegister, Leaves
  <1>11. CASE FreeIrq \/ FreeVectors \/ FreeRingsOnError
    BY <1>11 DEF FreeIrq, Release, FreeVectors, FreeRingsOnError, FreedRing
  <1>12. CASE Unmap \/ FreeNetdev \/ ReleaseRegions \/ DisableDevice \/ Cleanup
    BY <1>12 DEF Unmap, Release, FreeNetdev, ReleaseRegions, DisableDevice, Cleanup
  <1>13. CASE RemoveFiles \/ RemoveDrain
    BY <1>13 DEF RemoveFiles, RemoveDrain
  <1>14. CASE RemoveUnregister
    BY <1>14 DEF RemoveUnregister, MacStop
  <1>15. CASE RemoveMacStop
    BY <1>15 DEF RemoveMacStop, MacStop
  <1>16. CASE RemoveFreeRings
    BY <1>16 DEF RemoveFreeRings, Release, FreedRing
  <1>17. CASE Open \/ Stop
    BY <1>17 DEF Open, Stop, MacStop
  <1>18. CASE OpEnd
    BY <1>18 DEF OpEnd
  <1>19. CASE \E k \in env.ops : OpStart(k)
    BY <1>19 DEF OpStart
  <1> QED
    BY <1>1, <1>2, <1>3, <1>4, <1>5, <1>6, <1>7, <1>8, <1>9, <1>10, <1>11, <1>12, <1>13, <1>14, <1>15, <1>16, <1>17, <1>18, <1>19
       DEF Life, Probe, Unwind, Remove

\* Who follows a NULL ring pointer.
LEMMA LifeNull ==
  ASSUME FullInv, ~oops, Life PROVE NullRings'
  <1>0. stage \in 0 .. 4
    BY StageRange DEF FullInv, LifeInv
  <1> USE <1>0 DEF FullInv, LifeInv, param, net, hw, user, LifeTypeOK, NullRings, StoreInv, HeldInv, NetInv, At, HasDevice, HasRegions, HasNetdev, HasRegs, HasRings, HasVectors, HasIrq, Registered4, Late, Removing
  <1>1. CASE Bind \/ Unbind
    BY <1>1 DEF Bind, Unbind
  <1>2. CASE ProbeEnable \/ ProbeRegions \/ ProbeNetdev
    BY <1>2 DEF ProbeEnable, Acquire, ProbeRegions, ProbeNetdev
  <1>3. CASE ProbeMap
    BY <1>3 DEF ProbeMap, Acquire
  <1>4. CASE ProbeData
    BY <1>4 DEF ProbeData
  <1>5. CASE ProbeMask
    BY <1>5 DEF ProbeMask, MacStop
  <1>6. CASE ProbeRings
    BY <1>6 DEF ProbeRings, Acquire
  <1>7. CASE ProbeProgram
    BY <1>7 DEF ProbeProgram
  <1>8. CASE ProbeMac \/ ProbeMaster
    BY <1>8 DEF ProbeMac, ProbeMaster
  <1>9. CASE ProbeVectors \/ ProbeIrq
    BY <1>9 DEF ProbeVectors, Acquire, Leaves, ProbeIrq
  <1>10. CASE ProbeRegister
    BY <1>10 DEF ProbeRegister, Leaves
  <1>11. CASE FreeIrq \/ FreeVectors \/ FreeRingsOnError
    BY <1>11 DEF FreeIrq, Release, FreeVectors, FreeRingsOnError, FreedRing
  <1>12. CASE Unmap \/ FreeNetdev \/ ReleaseRegions \/ DisableDevice \/ Cleanup
    BY <1>12 DEF Unmap, Release, FreeNetdev, ReleaseRegions, DisableDevice, Cleanup
  <1>13. CASE RemoveFiles \/ RemoveDrain
    BY <1>13 DEF RemoveFiles, RemoveDrain
  <1>14. CASE RemoveUnregister
    BY <1>14 DEF RemoveUnregister, MacStop
  <1>15. CASE RemoveMacStop
    <2>1. pc = "macstop" /\ pc' = "freemem" /\ UNCHANGED <<stage, reset, left>>
      BY <1>15 DEF RemoveMacStop
    <2>2. "rings" \in res <=> stage >= 2
      BY <2>1
    <2>3. oops' <=> "rings" \notin res
      BY <1>15, Zenon DEF RemoveMacStop, MacStop
    <2> QED BY <2>1, <2>2, <2>3
  <1>16. CASE RemoveFreeRings
    BY <1>16 DEF RemoveFreeRings, Release, FreedRing
  <1>17. CASE Open \/ Stop
    BY <1>17 DEF Open, Stop, MacStop
  <1>18. CASE OpEnd
    BY <1>18 DEF OpEnd
  <1>19. CASE \E k \in env.ops : OpStart(k)
    BY <1>19 DEF OpStart
  <1> QED
    BY <1>1, <1>2, <1>3, <1>4, <1>5, <1>6, <1>7, <1>8, <1>9, <1>10, <1>11, <1>12, <1>13, <1>14, <1>15, <1>16, <1>17, <1>18, <1>19
       DEF Life, Probe, Unwind, Remove

LEMMA LifeStep ==
  ASSUME FullInv, [Next]_vars PROVE FullInv'
  <1>1. CASE Next
    BY <1>1, LifeTypes, LifeHeld, LifeNet, LifeMaster, LifeStore, LifeNull DEF Next, LifeInv, FullInv
  <1>2. CASE UNCHANGED vars
    BY <1>2 DEF vars, FullInv, LifeInv, LifeTypeOK, HeldInv, NetInv, MasterInv, StoreInv, NullRings, Pci,
                At, HasDevice, HasRegions, HasNetdev, HasRegs, HasRings, HasVectors, HasIrq,
                Registered4, Late
  <1>3. QED
    BY <1>1, <1>2

\* What is held, what the net_device is, and who set the bus master bit, at every step
\* of every life of the driver, whichever steps of mts_probe fail and whatever the
\* sysfs stores do.
THEOREM LifeInvariant == Spec => [](LifeInv /\ StoreInv /\ NullRings)
  <1>1. Init => FullInv
    BY LifeInit
  <1>2. FullInv /\ [Next]_vars => FullInv'
    BY LifeStep
  <1>3. FullInv => LifeInv /\ StoreInv /\ NullRings
    BY DEF FullInv
  <1>4. QED
    BY <1>1, <1>2, <1>3, PTL DEF Spec

\* A store is entered and runs only between mts_program_rings and the end of
\* device_remove_file, until a probe fails after it created the files.
THEOREM LifeStores == Spec => []StoreInv
  BY LifeInvariant, PTL

\* A NULL ring pointer is followed below stage 2 in every mts_remove, with
\* force_mac_reset in every probe, through a file a failed probe left, and never else.
THEOREM LifeNullRings == Spec => []NullRings
  BY LifeInvariant, PTL

\* The goto chain of mts_probe and the tail of mts_remove give back everything but the
\* sysfs files of a probe that failed late and what trigger_pci does through them.
THEOREM LifeReleases == Spec => []NothingHeldWhenUnbound
  <1>1. LifeInv /\ StoreInv => NothingHeldWhenUnbound
    <2> SUFFICES ASSUME LifeInv, StoreInv, pc = "unbound"
                 PROVE  /\ res = {} /\ ~registered /\ ~up /\ ~polling /\ ~drvdata
                        /\ files => left
                        /\ master => left /\ Pci
      BY DEF NothingHeldWhenUnbound
    <2>1. \A r \in Resources : r \notin res
      BY DEF LifeInv, HeldInv, Resources, At, HasDevice, HasRegions, HasNetdev, HasRegs, HasRings,
             HasVectors, HasIrq, Registered4
    <2>2. res = {}
      BY <2>1 DEF LifeInv, LifeTypeOK
    <2>3. ~registered /\ ~up /\ ~polling /\ ~drvdata
      BY DEF LifeInv, NetInv, At, Registered4
    <2>4. files => left
      BY DEF StoreInv, At
    <2>5. master => left /\ Pci
      BY DEF LifeInv, MasterInv, Late, Registered4, At, Removing
    <2>6. QED
      BY <2>2, <2>3, <2>4, <2>5
  <1>2. QED
    BY <1>1, LifeInvariant, PTL

\* The device masters the bus only over the driver's own rings, except by trigger_pci
\* once mts_remove freed the rings at stage 2 or 3, or after a probe that failed late.
THEOREM LifeMasterSafe == Spec => []MasterOverRings
  <1>1. LifeInv => MasterOverRings
    BY DEF LifeInv, MasterOverRings, MasterInv, HeldInv, NetInv, At, HasDevice, HasRegions, HasNetdev, HasRegs,
           HasRings, Registered4, Late, Removing
  <1>2. QED
    BY <1>1, LifeInvariant, PTL

\* Nothing is freed under the poll timer, the interrupt handler or a sleeping sysfs
\* store whose file is not one that a failed probe left.
THEOREM LifeUsersSafe == Spec => []UsersHaveMemory
  <1>1. LifeInv /\ StoreInv => UsersHaveMemory
    BY DEF LifeInv, StoreInv, UsersHaveMemory, HeldInv, NetInv, At, HasDevice, HasRegions, HasNetdev,
           HasRegs, HasRings, HasVectors, HasIrq, Registered4, Removing
  <1>2. QED
    BY <1>1, LifeInvariant, PTL
=============================================================================
