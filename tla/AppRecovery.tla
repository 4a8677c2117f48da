----------------------------- MODULE AppRecovery -----------------------------
(***************************************************************************)
(* What senbei-io promises about recovering v24.1 metadata                 *)
(* (senbei-io/src/android/context.rs), with no file, package or cache in   *)
(* sight: module 0x0C images are learned one application at a time, a      *)
(* blob is restored only under the single module its application has, and  *)
(* once one blob of an application has been restored nothing that could    *)
(* have changed the choice is learned any more.                            *)
(***************************************************************************)
CONSTANTS Module   \* decoded module 0x0C images

VARIABLES
  modules,     \* application |-> the distinct modules its libraries yielded
  recovered    \* <<application, module>> of every v24.1 blob restored

appRecoveryVars == <<modules, recovered>>

Applications == DOMAIN modules

AppRecoveryInit ==
  /\ modules = [a \in Applications |-> {}]
  /\ recovered = {}

Settled(a) == \E r \in recovered : r[1] = a

Learn(a, m) ==
  /\ ~ Settled(a)
  /\ modules' = [modules EXCEPT ![a] = @ \cup {m}]
  /\ UNCHANGED recovered

Recover(a, m) ==
  /\ modules[a] = {m}
  /\ recovered' = recovered \cup {<<a, m>>}
  /\ UNCHANGED modules

AppRecoveryNext ==
  \E a \in Applications, m \in Module : Learn(a, m) \/ Recover(a, m)

AppRecoverySpec == AppRecoveryInit /\ [][AppRecoveryNext]_appRecoveryVars
=============================================================================
