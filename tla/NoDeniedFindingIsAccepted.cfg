SPECIFICATION JudgeSpec
CONSTANTS LowerCase <- Folding
          Inputs <- InputsOf
INVARIANT NoDeniedFindingIsAccepted
CHECK_DEADLOCK FALSE
