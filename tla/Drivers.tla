------------------------------- MODULE Drivers -------------------------------
(***************************************************************************)
(* The kernel modules, LedTimer (both of its drivers), QuantumRead and     *)
(* QuantumSet, one of which is loaded.  They share nothing: a behaviour is *)
(* of the driver that is loaded first, and the variables of the others     *)
(* stay as they are.                                                       *)
(***************************************************************************)
EXTENDS LedTimer, Sequences

CONSTANTS
    MEM_SIZE, BLK_SIZE, Parameters, Counts, MaxVersion,  \* QuantumRead's
    Geometries, Blocks, Lengths, MaxStamp                \* QuantumSet's

\* mem_size and blk_size are ulong, and counts are size_t.
ASSUME ReadsAssumption ==
    /\ MEM_SIZE \in Nat /\ BLK_SIZE \in Nat
    /\ Parameters \subseteq Nat \X Nat /\ Counts \subseteq Nat /\ MaxVersion \in Nat

\* SC1_QUANTUM_SIZE and SC1_QSET_SIZE are above 0, counts are size_t, and a block is not
\* at NULL.
ASSUME QuantaAssumption ==
    /\ Geometries \subseteq (Nat \ {0}) \X (Nat \ {0})
    /\ Blocks \subseteq Nat \ {0} /\ Lengths \subseteq Nat /\ MaxStamp \in Nat

VARIABLES
    loaded,  \* the driver the behaviour is about
    load, mem_size, blk_size, data, size, rpc, filp, f_pos, count, copied, version,
    writing, alone, calm, got, shrunk, zeroed,
    stage, Q, S, set, length, block, upc, mode, priv, at, n, ptr, stamp, mark, bad, misused,
    told, asked, grown

readsVars == <<load, mem_size, blk_size, data, size, rpc, filp, f_pos, count, copied, version,
               writing, alone, calm, got, shrunk, zeroed>>
quantaVars == <<stage, Q, S, set, length, block, upc, mode, priv, at, n, ptr, stamp, mark, bad,
                misused, told, asked, grown>>

Reads == INSTANCE QuantumRead WITH Readers <- Users
Quanta == INSTANCE QuantumSet

driversVars == <<loaded, vars, readsVars, quantaVars>>

DriversInit ==
    /\ loaded \in {"ledb", "qread", "sc1"}
    /\ Init /\ (loaded # "ledb" => driver = "ledb")
    /\ Reads!Init /\ (loaded # "qread" => <<mem_size, blk_size>> = CHOOSE p \in Parameters : TRUE)
    /\ Quanta!Init /\ (loaded # "sc1" => <<Q, S>> = CHOOSE g \in Geometries : TRUE)

DriversNext ==
    \/ loaded = "ledb" /\ Next /\ UNCHANGED <<loaded, readsVars, quantaVars>>
    \/ loaded = "qread" /\ Reads!Next /\ UNCHANGED <<loaded, vars, quantaVars>>
    \/ loaded = "sc1" /\ Quanta!Next /\ UNCHANGED <<loaded, vars, readsVars>>

DriversSpec ==
    DriversInit /\ [][DriversNext]_driversVars /\ (loaded = "ledb" => Fairness)
-----------------------------------------------------------------------------
\* What the variables of the three drivers hold.
TypesOK == TypeOK /\ Reads!TypeOK /\ Quanta!TypeOK

\* QuantumRead's ReadsLastWrite (qread.c:166-187, 214-220).
ReadsLastWrite == Reads!ReadsLastWrite

\* QuantumRead's StrayOnlyByRace (qread.c:166-178).
StrayOnlyByRace == Reads!StrayOnlyByRace

\* QuantumSet's IsFile (sc1.c:159-160, 183-187).
IsFile == Quanta!IsFile

\* QuantumSet's NoLeak (sc1.c:84-96, 162-173).
NoLeak == Quanta!NoLeak

\* LedTimer's FollowsLastRequest (ledb.c:84-92, 195-208).
FollowsRequest == loaded = "ledb" => FollowsLastRequest
=============================================================================
