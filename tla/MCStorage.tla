------------------------------ MODULE MCStorage ------------------------------
(***************************************************************************)
(* The remote disk, the local file system, the remote file system and the  *)
(* namespace, each explored by itself: part says which one takes steps.    *)
(***************************************************************************)
EXTENDS Rds, Lfs, Rfs, Nam, TLC

CONSTANT Parts
VARIABLE part
storvars == <<part, rdvars, lfvars, rfsvars, namvars>>

\* The parts that do not step have one initial state.
StorInit ==
    /\ part \in Parts
    /\ rdsinit /\ lfsinit /\ rfsinit /\ naminit
    /\ part # "rds" => rdbudget = CHOOSE b \in RdBounds : TRUE
    /\ part # "lfs" => lfbudget = CHOOSE b \in LfBounds : TRUE
StorNext ==
    /\ UNCHANGED part
    /\ part = "rds" \/ UNCHANGED rdvars
    /\ part = "lfs" \/ UNCHANGED lfvars
    /\ part = "rfs" \/ UNCHANGED rfsvars
    /\ part = "nam" \/ UNCHANGED namvars
    /\ \/ part = "rds" /\ RdsNext
       \/ part = "lfs" /\ LfsNext
       \/ part = "rfs" /\ RfsNext
       \/ part = "nam" /\ NamNext
StorSpec == StorInit /\ [][StorNext]_storvars

\* A disk or a request list that has gone wrong is not followed further.
StorBound == RdSound /\ LfSound
StorSymmetry == Permutations(LfProcs)
-----------------------------------------------------------------------------
\* Reads of a block that is written, and of one that is not.
RdLimits == {[reads |-> 1, writes |-> 3, syncs |-> 0, asked |-> {1, 2}, given |-> {1}],
             [reads |-> 1, writes |-> 3, syncs |-> 0, asked |-> {1}, given |-> {1, 2}],
             [reads |-> 2, writes |-> 2, syncs |-> 0, asked |-> {1}, given |-> {1}],
             [reads |-> 1, writes |-> 2, syncs |-> 1, asked |-> {2}, given |-> {1, 2}]}

\* Opening and closing; reading what was written; truncating and writing again.
LfLimits ==
    {[opens |-> 4, get |-> 1, put |-> 3, seek |-> 0, trunc |-> 0, close |-> 2],
     [opens |-> 2, get |-> 2, put |-> 5, seek |-> 1, trunc |-> 0, close |-> 0],
     [opens |-> 2, get |-> 1, put |-> 5, seek |-> 0, trunc |-> 1, close |-> 1]}
Modes == {<<>>, <<"o">>, <<"n">>, <<"r","r">>}
RemoteModes == {<<"o">>, <<"n">>, <<"r","r">>}

Characters == {"/", "dev", "null", "remote", "local", "tmp", "tmp-", "~", "root:", "console",
               "nulldev", "namespace", "rfilesys", "lfilesys", "a", "b", "q", "w", "x", "y", "z"}
Devices == <<<<"console">>, <<"nulldev">>, <<"namespace">>, <<"rfilesys">>, <<"lfilesys">>>>
MountPoints == {<<"b","/">>}
Replacements == {<<"/","dev","/">>, <<"a","b","/">>, <<>>}
Opened == {NmDev \o <<"console">>, NmDev \o <<"namespace">>, NmDev \o <<"q">>,
           <<"/","tmp","/","x">>, <<"b","/","console">>, <<"b","/","b","/","x">>,
           <<"b","/","w","x","y","z">>, <<"~","/","x","y">>, [i \in 1..9 |-> "x"]}
==============================================================================
