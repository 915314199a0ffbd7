---------------------------- MODULE FileVerdict ----------------------------
(***************************************************************************)
(* What DDG concludes about one remote file: the verdict of compareRemote  *)
(* (main.go), the user's earlier decision about the same file, which may   *)
(* overrule it (result_truth_v85130.go), and the verdict of ExactGuard     *)
(* before a download (download_guard.go, smart_media_guard.go), which is   *)
(* written back into the row.  Between the two the user may choose another *)
(* local file for the row and have it checked (main.go, v7_extra.go).      *)
(*                                                                         *)
(* A file of the index is what can be told of it: how much its name is like*)
(* the remote one, whether it has its size or its very content, whether it *)
(* can be read, and whether a picture looks the same.  The index and the   *)
(* remote file do not change here: LocalIndex is about the index changing, *)
(* HistoryRegistry about the history of downloads, ResultsTable about the  *)
(* rows.                                                                   *)
(***************************************************************************)
EXTENDS FiniteSets

CONSTANTS
    Files,      \* paths of local files
    NoPath      \* no path

VARIABLES
    remote,     \* the remote file
    local,      \* the index: what each indexed file is
    at,         \* the next thing to do
    byHash,     \* the comparison went by the hash: a known one, mode not fast
    row,        \* the row of the results table
    guard       \* what ExactGuard says

verdictVars == <<remote, local, at, byHash, row, guard>>

Nearness == {"name", "identity", "near", "format", "none"}
Body == {"other", "size", "same"}
(* "alike": the signature of the picture, which can be made, is near that  *)
(* of the remote picture.                                                  *)
File == [match : Nearness, body : Body, readable : BOOLEAN, alike : BOOLEAN]

(* "odd": a hash of a kind that neither side can compute.                  *)
Remote == [hash : {"none", "known", "odd"}, exact : BOOLEAN,
           kind : {"picture", "film", "other"}]

(* What the user may have said of the remote file (App.decisions).         *)
Decision ==
    {d \in [status : {"HAVE", "MISSING", "DIFFERENT", "none"},
            path : Files \cup {NoPath}] : d.status = "none" => d.path = NoPath}

NoRow == [auto |-> "none", status |-> "none", manual |-> FALSE,
          path |-> NoPath]
NoGuard == [verdict |-> "none", method |-> "none", path |-> NoPath]

Indexed == DOMAIN local
With(match) == {f \in Indexed : local[f].match = match}
SameSize == {f \in Indexed : local[f].body # "other"}
SameNameSameSize == With("name") \cap SameSize
Media == remote.kind # "other"
Readable == {f \in Indexed : local[f].readable}

(* What ensureHash can find equal to the remote hash or content.           *)
Copies == {f \in SameSize \cap Readable : local[f].body = "same"}

VerdictInit ==
    /\ remote \in Remote
    /\ \E I \in SUBSET Files : local \in [I -> File]
    /\ \A f \in Indexed :
           IF remote.kind = "picture" THEN local[f].body = "same" => local[f].alike
           ELSE ~local[f].alike
    /\ at = "compare"
    /\ byHash = FALSE
    /\ row = NoRow
    /\ guard = NoGuard

-----------------------------------------------------------------------------
(* compareRemote *)

(* Verdicts the comparison may reach, with the file it shows.              *)
FoundByHash ==
    IF remote.hash = "known" /\ Copies # {}
    THEN {<<"VERIFIED", f>> : f \in Copies}
    ELSE IF SameNameSameSize # {}
    THEN {<<"DIFFERENT", f>> : f \in SameNameSameSize}
    ELSE {<<"MISSING", NoPath>>}

(* A picture or film of the same name and another size may be a version of *)
(* it (normalizeInitialMediaResultV85), unless the source gives a hash.    *)
OtherSize ==
    IF Media /\ remote.hash = "none" THEN "POSSIBLE" ELSE "DIFFERENT"

(* Among the files of the same size the one of the nearest name counts; of *)
(* two whose names are far, any.                                           *)
Nearest ==
    IF With("near") \cap SameSize # {} THEN With("near") \cap SameSize
    ELSE SameSize

FoundByName ==
    IF SameNameSameSize # {} THEN {<<"HAVE", f>> : f \in SameNameSameSize}
    ELSE IF With("name") # {} THEN {<<OtherSize, f>> : f \in With("name")}
    ELSE IF With("identity") # {}
    THEN {<<"POSSIBLE", f>> : f \in With("identity")}
    ELSE IF SameSize # {}
    THEN {IF local[f].match \in {"near", "format"} THEN <<"POSSIBLE", f>>
          ELSE <<"MISSING", NoPath>> : f \in Nearest}
    ELSE {<<"MISSING", NoPath>>}

(* Faulty variant: stale history is only refused where the file it was     *)
(* about is no longer the one shown.                                       *)
Applies_WhatIsShown(d, auto, path) ==
    CASE d.status \in {"MISSING", "DIFFERENT"} ->
             path # NoPath /\ d.path # NoPath => d.path = path
      [] d.status = "HAVE" -> d.path # NoPath => d.path \in Indexed
      [] OTHER -> FALSE

(* Whether an earlier decision still holds (persistedDecisionApplies).     *)
Applies(d, auto, path) ==
    CASE d.status = "MISSING" ->
             /\ auto \notin {"VERIFIED", "HAVE", "SAMPLED"}
             /\ path # NoPath => d.path = path
      [] d.status = "DIFFERENT" ->
             /\ auto \notin {"VERIFIED", "HAVE", "SAMPLED"}
             /\ path # NoPath /\ d.path # NoPath => d.path = path
      [] d.status = "HAVE" -> d.path # NoPath => d.path \in Indexed
      [] OTHER -> FALSE

(* enrichResult: a path that has left the index is not shown.              *)
Shown(path) == IF path \in Indexed THEN path ELSE NoPath

(* An earlier decision that still holds is what the row says.              *)
Conclude(auto, path, d) ==
    row' = IF Applies(d, auto, path)
           THEN [auto |-> auto, status |-> d.status, manual |-> TRUE,
                 path |-> Shown(IF d.path = NoPath THEN path ELSE d.path)]
           ELSE [auto |-> auto, status |-> auto, manual |-> FALSE,
                 path |-> Shown(path)]

Compare ==
    /\ at = "compare"
    /\ \E deep \in BOOLEAN, d \in Decision :
          /\ byHash' = (deep /\ remote.hash # "none")
          /\ \E found \in IF byHash' THEN FoundByHash ELSE FoundByName :
                Conclude(found[1], found[2], d)
    /\ at' = "compared"
    /\ UNCHANGED <<remote, local, guard>>

-----------------------------------------------------------------------------
(* The checks that the user asks for of a row, each of a file of the index *)
(* (localPathAllowed).  A check that fails leaves the row as it is.        *)

Rests == at \in {"compared", "checked"}

(* updateVerification: what the user has said remains.                     *)
Settle(status, path) ==
    /\ row' = [row EXCEPT !.auto = status, !.path = path,
                          !.status = IF row.manual THEN @ ELSE status]
    /\ at' = "checked"
    /\ UNCHANGED <<remote, local, byHash, guard>>

(* handleSelectCandidate: the files that candidatesFor offers are some of  *)
(* the index.                                                              *)
SelectCandidate ==
    /\ Rests
    /\ \E f \in Indexed :
          Settle(IF row.auto = "MISSING" THEN "POSSIBLE" ELSE row.auto, f)

(* What samples of a file of the same size tell: of a small one they are   *)
(* the whole file (sampleRanges).                                          *)
Sampled(f) == IF local[f].body = "same" THEN {"SAMPLED"}
              ELSE {"SAMPLED", "DIFFERENT"}
Whole(f) == IF local[f].body = "same" THEN {"VERIFIED"} ELSE {"DIFFERENT"}

(* handleDeepVerify shows the file that it has looked at.                  *)
DeepVerify ==
    /\ Rests
    /\ \E f \in SameSize \cap Readable :
          \E status \in Sampled(f) \cup Whole(f) : Settle(status, f)

(* exactHashVerify: a hash that cannot be computed is taken to differ.     *)
HashVerify(f) ==
    /\ remote.hash # "none"
    /\ Settle(IF f \in Copies /\ remote.hash = "known" THEN "VERIFIED"
              ELSE "DIFFERENT", row.path)

(* fullByteCompare: a remote file that ends too early differs, also when   *)
(* the connection was lost.                                                *)
Streamed(f) == Whole(f) \cup {"DIFFERENT"}

(* handleFullVerify, here and below without writing which file it was.     *)
FullVerify ==
    /\ Rests
    /\ \E f \in Readable :
          \/ HashVerify(f)
          \/ /\ remote.hash = "none"
             /\ \E status \in Streamed(f) : Settle(status, row.path)

(* Whether the hashes of the picture, or of three frames of the film, are  *)
(* near: always for the same content (imageVisualScore, visualVideoScore). *)
Near(f) == IF local[f].body = "same" THEN {TRUE} ELSE BOOLEAN

(* handleVisualVerify: of a file that is not near it leaves the verdict.   *)
VisualVerify ==
    /\ Rests
    /\ Media
    /\ \E f \in Readable : \E near \in Near(f) :
          Settle(IF near THEN "POSSIBLE" ELSE row.auto, row.path)

(* performSampleVerify *)
SampleVerify(f) == \E status \in Sampled(f) : Settle(status, row.path)

(* handleSmartVerify: the hash, or else, of the same size, the bytes of a  *)
(* small file or the samples of another, or else the looks.                *)
SmartVerify ==
    /\ Rests
    /\ \E f \in Readable :
          \/ HashVerify(f)
          \/ /\ remote.hash = "none"
             /\ f \in SameSize
             /\ \/ \E status \in Streamed(f) : Settle(status, row.path)
                \/ SampleVerify(f)
          \/ /\ remote.hash = "none"
             /\ Media
             /\ Settle("POSSIBLE", row.path)

-----------------------------------------------------------------------------
(* What runDownloadGuard makes of the verdict.  In the AI mode a DOWNLOAD  *)
(* may become something to look at; and it does become that where the user *)
(* has said that he has the file.                                          *)
Final(said) ==
    LET review(method, path) ==
            [verdict |-> "REVIEW", method |-> method, path |-> path]
    IN  IF said.verdict # "DOWNLOAD" THEN {said}
        ELSE {IF g.verdict = "DOWNLOAD" /\ row.manual /\ row.status = "HAVE"
              THEN review("manual-have", row.path) ELSE g :
                 g \in {said} \cup
                       IF Media
                       THEN {review("advisory", f) : f \in Indexed} ELSE {}}

GuardStatus(g) ==
    CASE g.verdict = "DUPLICATE" -> "VERIFIED"
      [] g.verdict = "DOWNLOAD" -> "MISSING"
      [] OTHER -> IF g.method = "deterministic-samples" THEN "SAMPLED"
                  ELSE "POSSIBLE"

(* applyGuardDecisions *)
Says(verdict, method, path) ==
    /\ \E g \in Final([verdict |-> verdict, method |-> method, path |-> path]) :
          /\ guard' = g
          /\ row' = [auto |-> GuardStatus(g),
                     status |-> IF row.manual THEN row.status
                                ELSE GuardStatus(g),
                     manual |-> row.manual,
                     path |-> IF g.path = NoPath THEN row.path ELSE g.path]
    /\ at' = "done"
    /\ UNCHANGED <<remote, local, byHash>>

-----------------------------------------------------------------------------
(* evaluateDownloadGuard *)

(* mediaNearDuplicateDecision, where some file of the index is a picture or*)
(* a film like the remote file: it says that the file is to be looked at,  *)
(* also when it cannot reach the remote one or has not looked at them all, *)
(* unless it finds none to be like it.  It compares every picture that has *)
(* a signature, but of the films at most seven, of nearly the duration or  *)
(* the name and size, and of those the ones it can take a fingerprint of.  *)
LookAlikes == {f \in Readable : local[f].alike}
MediaReview ==
    /\ Media
    /\ Indexed # {}
    /\ \E path \in {row.path} \cup Indexed : Says("REVIEW", "media", path)
MediaPasses == remote.kind = "picture" => LookAlikes = {}

(* Faulty variant: the pictures and films are not looked at.               *)
NoCopy_NotMedia(method) == Says("DOWNLOAD", method, NoPath)

(* What is said where no file is a copy.                                   *)
NoCopy(method) ==
    \/ MediaReview
    \/ MediaPasses /\ Says("DOWNLOAD", method, NoPath)

(* DDG has downloaded it, and the file is still there; or a file of the    *)
(* same page of a provider, which may be another version.                  *)
AskHistory ==
    /\ Rests
    /\ \E f \in Indexed :
          \/ /\ remote.exact => f \in SameSize
             /\ Says("DUPLICATE", "download-history", f)
          \/ Says("REVIEW", "download-history-source", f)

AskSize ==
    /\ Rests
    /\ ~remote.exact
    /\ \/ MediaReview
       \/ MediaPasses /\ Says("REVIEW", "metadata-incomplete", row.path)

AskIndex ==
    /\ Rests
    /\ remote.exact
    /\ SameSize = {}
    /\ \/ MediaReview
       \/ /\ MediaPasses
          /\ IF row.manual /\ row.status = "HAVE"
             THEN Says("REVIEW", "manual-have", row.path)
             ELSE Says("DOWNLOAD", "live-size-index", NoPath)

AskHash ==
    /\ Rests
    /\ remote.exact
    /\ SameSize # {}
    /\ remote.hash = "known"
    /\ IF Copies # {} THEN \E f \in Copies : Says("DUPLICATE", "remote-hash", f)
       ELSE NoCopy("remote-hash")

(* Without a hash the remote content is read, all of it or in samples, as  *)
(* the mode and the size of the file say; MEGA may be busy, or the reading *)
(* fail.                                                                   *)
MustRead ==
    /\ Rests
    /\ remote.exact
    /\ SameSize # {}
    /\ remote.hash # "known"

CannotRead ==
    /\ MustRead
    /\ \E f \in SameSize : Says("REVIEW", "remote-unavailable", f)

AskContent ==
    /\ MustRead
    /\ IF Copies # {} THEN \E f \in Copies : Says("DUPLICATE", "full-sha256", f)
       ELSE NoCopy("full-sha256")

(* Faulty variant: the files that pass the samples are copies.             *)
AskSamples_AreProof ==
    /\ MustRead
    /\ \E left \in SUBSET (SameSize \cap Readable) :
          /\ Copies \subseteq left
          /\ IF left # {}
             THEN \E f \in left : Says("DUPLICATE", "full-sha256", f)
             ELSE NoCopy("deterministic-samples")

(* A copy passes every sample, another file may.                           *)
AskSamples ==
    /\ MustRead
    /\ \E left \in SUBSET (SameSize \cap Readable) :
          /\ Copies \subseteq left
          /\ IF left # {}
             THEN \E f \in left : Says("REVIEW", "deterministic-samples", f)
             ELSE NoCopy("deterministic-samples")

-----------------------------------------------------------------------------
VerdictNext ==
    \/ Compare
    \/ SelectCandidate \/ DeepVerify \/ FullVerify \/ VisualVerify \/ SmartVerify
    \/ AskHistory \/ AskSize \/ AskIndex \/ AskHash
    \/ CannotRead \/ AskContent \/ AskSamples

VerdictSpec == VerdictInit /\ [][VerdictNext]_verdictVars

-----------------------------------------------------------------------------
(* A row of a comparison is not MISSING or DIFFERENT, whatever the user has*)
(* said before, while the index has a file that can be shown to be a copy: *)
(* by its hash, or, where the comparison did not go by the hash, by the    *)
(* same name and size (compareRemote, persistedDecisionApplies).           *)
CopyIsNotHidden ==
    at = "compared" /\ row.status \in {"MISSING", "DIFFERENT"} =>
        IF byHash THEN remote.hash = "known" => Copies = {}
        ELSE SameNameSameSize = {}

(* ExactGuard tells the user to download only a file of an exact size that *)
(* he has not said he has, of which no readable file of the index is a     *)
(* copy, nor, for a picture, looks like it.  A film that looks like it may *)
(* be there: not all of them are compared (evaluateDownloadGuard,          *)
(* mediaNearDuplicateDecision, runDownloadGuard).                          *)
DownloadIsJustified ==
    at = "done" /\ guard.verdict = "DOWNLOAD" =>
        /\ remote.exact
        /\ ~(row.manual /\ row.status = "HAVE")
        /\ Copies = {}
        /\ remote.kind = "picture" => LookAlikes = {}

(* A row that says VERIFIED of its own means that the local files include  *)
(* the remote content, or one that DDG has downloaded for it: neither      *)
(* samples nor looks are taken for proof, by the comparison, by ExactGuard *)
(* or by a check.  The row shows that file unless the user has asked for   *)
(* another (compareRemote, evaluateDownloadGuard, applyGuardDecisions, the *)
(* handlers of the checks).                                                *)
VerifiedIsProven ==
    row.auto = "VERIFIED" /\ ~row.manual =>
        \/ guard.method = "download-history" /\ row.path \in Indexed
        \/ /\ \E f \in Indexed : local[f].body = "same"
           /\ at \in {"compared", "done"} =>
                 row.path \in Indexed /\ local[row.path].body = "same"
=============================================================================
