------------------------------ MODULE XbpsSolve ------------------------------
(***************************************************************************)
(* The program bin/xbps-solve: main() reads its options with getopt_long, *)
(* calls xbps_init, xbps_transaction_init1 and xbps_transaction_solve,    *)
(* and exits.  The solve is the Solver module, whose steps run only while *)
(* main is inside xbps_transaction_solve; main's own state is kept apart  *)
(* in mainvars.                                                            *)
(*                                                                         *)
(* An option is the letter getopt_long returns ("?" for an unknown option *)
(* or a missing argument).  The values the options carry (directories,    *)
(* repositories, flags) choose the pkgdb and the repository pool, which   *)
(* the universe u stands for, or what is printed; they are left out.      *)
(* The Solver variables hold the zeroed trans from the start: no step     *)
(* reads them before xbps_transaction_init1 has returned.                 *)
(***************************************************************************)
EXTENDS Solver

CONSTANT Argvs   \* the option lists main may be given

VARIABLES
    mpc,     \* "getopt", "init1", "solve" or "exit"
    argv,    \* the options, in the order getopt_long returns them
    optind,  \* the next option getopt_long returns
    ended,   \* how the process ended: "no", "exit" or "signal"
    code     \* the exit status, once ended = "exit"

mainvars == <<mpc, argv, optind, ended, code>>
allvars == <<vars, mainvars>>

EXIT_SUCCESS == 0
EXIT_FAILURE == 1
ENOMEM == 12

\* exit(s): the status the parent sees is s modulo 256
Exit(s) == mpc' = "exit" /\ ended' = "exit" /\ code' = s % 256

\* the process is killed by a signal
Killed == mpc' = "exit" /\ ended' = "signal" /\ UNCHANGED code

ProgramInit ==
    /\ Init
    /\ mpc = "getopt"
    /\ argv \in Argvs
    /\ optind = 1
    /\ ended = "no"
    /\ code = 0

\* one option of the getopt_long loop: -h prints the usage and exits with
\* success, -V prints the version and exits with success, an unknown
\* option prints the usage and fails; every other letter sets a variable
\* or a flag, or has no case in the switch and is ignored
Getopt ==
    /\ mpc = "getopt"
    /\ optind <= Len(argv)
    /\ CASE argv[optind] \in {"h", "V"} -> Exit(EXIT_SUCCESS)
         [] argv[optind] = "?"          -> Exit(EXIT_FAILURE)
         [] OTHER                       -> UNCHANGED <<mpc, ended, code>>
    /\ optind' = optind + 1
    /\ UNCHANGED <<vars, argv>>

\* getopt_long returns -1: the directories are copied into the handle and
\* xbps_init reads the configuration, which may fail
XbpsInit ==
    /\ mpc = "getopt"
    /\ optind > Len(argv)
    /\ \/ Exit(EXIT_FAILURE)
       \/ mpc' = "init1" /\ UNCHANGED <<ended, code>>
    /\ UNCHANGED <<vars, argv, optind>>

\* what xbps_transaction_init1 returns when trans is NULL: 0, or -1 when
\* xbps_pkgdb_init, strdup or malloc fails, or calloc's errno
xbps_transaction_init1 == {0, -1, ENOMEM}

\* a non-zero result of xbps_transaction_init1 ends the program
TransactionInit1 ==
    /\ mpc = "init1"
    /\ \E rv \in xbps_transaction_init1 :
          IF rv # 0 THEN Exit(EXIT_FAILURE) ELSE mpc' = "solve" /\ UNCHANGED <<ended, code>>
    /\ UNCHANGED <<vars, argv, optind>>

\* a step of xbps_transaction_solve
Solving ==
    /\ mpc = "solve"
    /\ Next
    /\ UNCHANGED mainvars

\* what xbps_transaction_solve returns: 0 after choose() finds nothing or
\* after the loop breaks, -1 before the loop, errno when choose fails
SolveRv ==
    CASE result \in {"solved", "broke"} -> 0
      [] result = "-1"                  -> -1
      [] result = "errno"               -> ENOMEM

\* a mutant: exit(rv) with what the solve returned, the check dropped
ReturnRaw ==
    /\ mpc = "solve"
    /\ pc = "done"
    /\ IF result \in {"abort", "crash", "killed"}
       THEN Killed
       ELSE Exit(SolveRv)
    /\ UNCHANGED <<vars, argv, optind>>

\* xbps_transaction_solve returned, or the process died inside it (abort,
\* a NULL dereference, the OOM killer): a non-zero result exits with
\* EXIT_FAILURE, 0 ends with xbps_end and exit(0)
Return ==
    /\ mpc = "solve"
    /\ pc = "done"
    /\ CASE result \in {"abort", "crash", "killed"} -> Killed
         [] SolveRv # 0                             -> Exit(EXIT_FAILURE)
         [] OTHER                                   -> Exit(SolveRv)
    /\ UNCHANGED <<vars, argv, optind>>

ProgramNext == Getopt \/ XbpsInit \/ TransactionInit1 \/ Solving \/ Return

\* one sequential process: every enabled step is eventually taken
ProgramSpec == ProgramInit /\ [][ProgramNext]_allvars /\ WF_allvars(ProgramNext)

-----------------------------------------------------------------------------

MainTypeOK ==
    /\ mpc \in {"getopt", "init1", "solve", "exit"}
    /\ optind \in 1..Len(argv) + 1
    /\ ended \in {"no", "exit", "signal"}
    /\ code \in {EXIT_SUCCESS, EXIT_FAILURE}
    /\ (ended = "no") = (mpc # "exit")

(* Every run of xbps-solve ends: the option loop, xbps_init and           *)
(* xbps_transaction_init1 return, and so does the solve (propagate drains *)
(* its queue, resolve's loop ends, choose runs out of packages), unless   *)
(* the process dies inside it.                                             *)
ProgramEnds == <>(mpc = "exit")

=============================================================================
