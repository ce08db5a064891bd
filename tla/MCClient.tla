------------------------------ MODULE MCClient ------------------------------
(* Parts of the client program that share no state, checked side by side: a *)
(* behaviour exercises one of them, and the others stay as they started.    *)
EXTENDS Verification, MCMessageView, ClientStart, SetupWizard, MatrixLogin

VARIABLE part  \* the part that is exercised

Parts == {"verify", "write", "start", "setup", "matrix"}

\* Verification, in a program that has exited.
VerifyAbsent ==
  /\ helper = [t \in Txns |-> "none"] /\ confirms = [t \in Txns |-> {}]
  /\ lock = Free /\ tasks = {} /\ events = <<>> /\ closed = TRUE
  /\ syncing = FALSE /\ process = "exited" /\ modal = NoModal
  /\ compared = {} /\ over = {}

\* A part that is not exercised starts in one way only.
ClientInit ==
  /\ part \in Parts
  /\ IF part = "verify" THEN Init ELSE VerifyAbsent
  /\ MvInit /\ (part # "write" => mvChannel = CHOOSE c \in MvChannels : TRUE)
  /\ CsInit /\ (part # "start" => csLegacy = 0)
  /\ SwInit /\ (part # "setup" => swCfg.guilds = {} /\ swCfg.app /\ swCfg.token)
  /\ MlInit

ClientNext ==
  /\ UNCHANGED part
  /\ \/ part = "verify" /\ Next /\ UNCHANGED <<mvVars, csVars, swVars, mlVars>>
     \/ part = "write" /\ MvNext /\ UNCHANGED <<vars, csVars, swVars, mlVars>>
     \/ part = "start" /\ CsNext /\ UNCHANGED <<vars, mvVars, swVars, mlVars>>
     \/ part = "setup" /\ SwNext /\ UNCHANGED <<vars, mvVars, csVars, mlVars>>
     \/ part = "matrix" /\ MlNext /\ UNCHANGED <<vars, mvVars, csVars, swVars>>

ClientSpec ==
  /\ ClientInit
  /\ [][ClientNext]_<<part, vars, mvVars, csVars, swVars, mlVars>>
  /\ Fairness

ClientTypeOK ==
  /\ part \in Parts
  /\ TypeOK /\ MvTypeOK /\ CsTypeOK /\ SwTypeOK /\ MlTypeOK
=============================================================================
