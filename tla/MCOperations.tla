---------------------------- MODULE MCOperations ----------------------------
(* Small instances for TLC of what the client does besides turns: its       *)
(* process, the app-server's own requests, direct images and their PNG.     *)
(* They meet only in the connection, so a behaviour exercises one of them.  *)
EXTENDS ProcessHandle, Approvals, ImageOperation, PngScan

VARIABLE focus

vars == <<link, processVars, approvalVars, imageVars, pngVars, focus>>

Init ==
  /\ focus \in {"process", "approvals", "images", "png"}
  /\ LinkInit
  /\ ProcessInit
  /\ ApprovalInit
  /\ ImageInit
  /\ PngInit
  /\ focus = "png" \/ colour = 0

OfProcess(A) ==
  focus = "process" /\ A
    /\ UNCHANGED <<link, approvalVars, imageVars, pngVars, focus>>
OfApprovals(A) ==
  focus = "approvals" /\ A
    /\ UNCHANGED <<processVars, imageVars, pngVars, focus>>
OfImages(A) ==
  focus = "images" /\ A
    /\ UNCHANGED <<processVars, approvalVars, pngVars, focus>>
OfPng(A) ==
  focus = "png" /\ A
    /\ UNCHANGED <<link, processVars, approvalVars, imageVars, focus>>

Next ==
  \/ OfProcess(ProcessNext)
  \/ OfApprovals(ApprovalNext)
  \/ OfImages(ImageNext)
  \/ OfPng(PngNext)

(* A task that can go on does, a lock that stays free is taken and a        *)
(* deadline that has passed is noticed.  A write to a dead child fails.     *)
(* The child itself owes nothing: neither to read, to write nor to leave.   *)
ProcessFairness ==
  /\ WF_vars(OfProcess(WriterStep))
  /\ WF_vars(OfProcess(ReaderSends))
  /\ WF_vars(OfProcess(RouterStep))
  /\ WF_vars(OfProcess(WriteFails /\ child \in {"zombie", "reaped"}))
  /\ WF_vars(OfProcess(ShutdownWorks))
  /\ \A k \in Killers : WF_vars(OfProcess(KillStep(k)))

(* The responder task runs, its timeout included, and a send ends.          *)
ApprovalFairness ==
  \A r \in Reverse : WF_vars(OfApprovals(Refuse(r) \/ TaskStep(r)))

FairSpec == Init /\ [][Next]_vars /\ ProcessFairness /\ ApprovalFairness
=============================================================================
