------------------------------ MODULE MCLocal -------------------------------
(***************************************************************************)
(* What happens inside one AmuleD process and on its disk: the download    *)
(* queue, the kernel, a part file, the hash checks and the IP filter.      *)
(* They share no state here: a behaviour is about one of them, the others  *)
(* rest in an initial state, and the run explores their sum.               *)
(***************************************************************************)
EXTENDS DownloadQueue, Kernel, IpFilter, PartFile

CONSTANT Components     \* those the run is about

\* Every download has its own name.
OwnName == [f \in Files |-> f]

VARIABLES
    component,
    length, bad, sender, theirs, stripe, check, corrupt, ranges, stored     \* Hashes

hashVars == <<length, bad, sender, theirs, stripe, check, corrupt, ranges, stored>>
localVars == <<component, vars, kernelVars, fileVars, hashVars, filterVars>>

\* 43 = 4 * 9 + 7: parts of odd and even numbers of blocks, up to nine parts.
H == INSTANCE Hashes WITH
        PARTSIZE <- 43, BLOCKSIZE <- 9, size <- length, pc <- check,
        Sizes <- {5, 9, 10, 42, 43, 44, 60, 86, 87, 100, 129, 135, 172, 200, 215, 230, 258,
                  290, 301, 310, 335, 344, 388},
        Damages <- {{}, {0}, {9}, {43}, {0, 43}, {79, 86}, {36, 129, 137}, {301}}

\* A list with a reversed line and overlapping ranges of different levels, and one with two
\* levels for the same range.
Line(from, to, level) == [start |-> from, end |-> to, level |-> level]
ListsOfRun ==
    {<<Line(5, 2, 200), Line(6, 8, 200), Line(1, 7, 100)>>,
     <<Line(4, 4, 100), Line(4, 4, 127), Line(0, 2, 300)>>}

ASSUME ConstantsFit == KernelAssumption /\ PartFileAssumption /\ FilterAssumption

-----------------------------------------------------------------------------
About(x) == component = x /\ UNCHANGED component

\* A component that a behaviour is not about rests in one of its initial states.
KernelRests == \A f \in Downloads : rows[f] = "none" /\ known[f] = 0
HashesRest == length = 5 /\ bad = {} /\ sender = "emule" /\ ~stripe /\ stored = H!NoMaster
FilterRests == dest = <<>> /\ due

LocalInit ==
    /\ component \in Components
    /\ Init
    /\ KernelInit /\ (component = "kernel" \/ KernelRests)
    /\ PartInit /\ (component = "part_file" \/ size = 0)
    /\ H!Init /\ (component = "hashes" \/ HashesRest)
    /\ FilterInit /\ (component = "ipfilter" \/ FilterRests)

LocalNext ==
    \/ About("queue") /\ Next /\ UNCHANGED <<kernelVars, fileVars, hashVars, filterVars>>
    \/ About("kernel") /\ KernelNext /\ UNCHANGED <<vars, fileVars, hashVars, filterVars>>
    \/ About("part_file") /\ PartNext /\ UNCHANGED <<vars, kernelVars, hashVars, filterVars>>
    \/ About("hashes") /\ H!Next /\ UNCHANGED <<vars, kernelVars, fileVars, filterVars>>
    \/ About("ipfilter") /\ FilterNext /\ UNCHANGED <<vars, kernelVars, fileVars, hashVars>>

\* No fair action of the kernel is enabled while it rests.
LocalSpec == LocalInit /\ [][LocalNext]_localVars /\ KernelFairness

-----------------------------------------------------------------------------
\* Hashes: an authentic recovery answer is never taken for a forged one.
RecoveryAuthentic == H!RecoveryAuthentic

\* Hashes: what was damaged in corrupt parts is fetched again, a master that is stored was checked.
DamageRefetched == H!DamageRefetched

\* Hashes: a part that arrived damaged is found corrupt.
PartsVerified == H!PartsVerified
=============================================================================
