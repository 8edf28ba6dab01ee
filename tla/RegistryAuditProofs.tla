-------------------------- MODULE RegistryAuditProofs --------------------------
(***************************************************************************)
(* Proofs about the audit of one package: whatever is published, and       *)
(* whichever requests go wrong, what is said of the package is honest.     *)
(***************************************************************************)
EXTENDS RegistryAudit, TLAPS

--------------------------------------------------------------------------------
(* What there would be with a network that answers everything, for the     *)
(* document that is published or the one that came instead.                *)
TrueDocument ==
    IF astray THEN document
    ELSE IF subject.type = "npm" /\ ~subject.named THEN NotYet
    ELSE [doc |-> subject.document, reason |-> IF subject.document = NoDocument THEN "package-not-found" ELSE "none"]
RefsRead(doc) == hookScriptRefs(ManifestToRead(subject, doc))
Asked(ref) == subject.named /\ subject.pinned /\ ref \notin subject.unsafe
TrueTexts ==
    [ref \in {r \in RefsRead(TrueDocument.doc) : Asked(r)} \cap DOMAIN subject.files |-> subject.files[ref]]
TrueReasons ==
    [ref \in RefsRead(TrueDocument.doc) \ DOMAIN TrueTexts |->
        IF ref \in {r \in RefsRead(TrueDocument.doc) : Asked(r)}
        THEN "hook-script-not-published" ELSE "hook-script-path-not-requested"]

Stages == {"document", "scripts", "judge", "done"}
Answer == [status : {0, 200, 404, 503}, body : {NoDocument}, redirected : BOOLEAN]

(* The document is the one that is published, or there is none, or it came *)
(* from another address.                                                   *)
DocumentTrue ==
    /\ astray \in BOOLEAN
    /\ subject \in Subjects /\ losses \in 0..MaxLosses /\ stage \in Stages
    /\ document.doc \in {NoDocument, TrueDocument.doc}
    /\ document.reason = "package-not-found" /\ ~astray => subject.document = NoDocument
    /\ stage = "document" => document.doc = NoDocument /\ ~astray

(* Each file of the hooks is still to be read, or has a text, or a reason  *)
(* why it has none; only a file that is not there was ever answered 404.   *)
HeardTrue ==
    /\ DOMAIN heard = RefsRead(document.doc) /\ refs \subseteq DOMAIN heard
    /\ DOMAIN scripts \cup DOMAIN reasons = DOMAIN heard \ refs
    /\ DOMAIN scripts \cap DOMAIN reasons = {}
    /\ stage \notin {"document", "scripts"} => refs = {}
    /\ \A ref \in DOMAIN heard :
         /\ heard[ref] \in Seq(Answer) /\ Len(heard[ref]) <= 2
         /\ ref \in refs => Len(heard[ref]) <= 1
         /\ \A i \in 1..Len(heard[ref]) : heard[ref][i].status = 404 => ref \notin DOMAIN subject.files

TextsTrue ==
    /\ \A ref \in DOMAIN scripts :
         Asked(ref) /\ ref \in DOMAIN subject.files /\ scripts[ref] = subject.files[ref]
    /\ \A ref \in DOMAIN reasons :
         reasons[ref] = "hook-script-not-published" => Asked(ref) /\ ref \notin DOMAIN subject.files

RowTrue == row = IF stage = "done" THEN Row(subject, document, scripts, reasons) ELSE NoRow

IInv == DocumentTrue /\ HeardTrue /\ TextsTrue /\ RowTrue

--------------------------------------------------------------------------------
(* Every step keeps the invariant. *)

(* Without a manifest, or outside npm, there are no scripts to read. *)
LEMMA NoRefsToRead ==
  /\ RefsRead(NoDocument) = {}
  /\ subject.type # "npm" => \A doc : RefsRead(doc) = {}
BY DEF RefsRead, hookScriptRefs, HooksOf, ManifestToRead

(* The invariant holds before anything is fetched. *)
LEMMA InitIInv == AuditInit => IInv
<1> SUFFICES ASSUME AuditInit PROVE IInv
  OBVIOUS
<1>1. /\ subject \in Subjects /\ stage \in {"judge", "document"}
      /\ document.doc = NoDocument /\ document.reason = "none"
      /\ refs = {} /\ heard = <<>> /\ scripts = <<>> /\ reasons = <<>> /\ row = NoRow /\ losses = 0
      /\ astray = FALSE
  BY DEF AuditInit, NotYet
<1>2. DocumentTrue
  <2>1. astray \in BOOLEAN
    BY <1>1
  <2>2. document.reason # "package-not-found" /\ ~astray
    BY <1>1
  <2>3. QED
    BY <1>1, <2>1, <2>2, AuditAssumption DEF DocumentTrue, Stages
<1>3. HeardTrue
  BY <1>1, NoRefsToRead DEF HeardTrue
<1>4. TextsTrue
  BY <1>1 DEF TextsTrue
<1>5. RowTrue
  BY <1>1 DEF RowTrue
<1>6. QED
  BY <1>2, <1>3, <1>4, <1>5 DEF IInv

(* The package does not change, and with it what there would be.           *)
LEMMA SubjectStays ==
  ASSUME subject' = subject
  PROVE  /\ UNCHANGED <<document, astray>> => TrueDocument' = TrueDocument
         /\ \A doc : RefsRead(doc)' = RefsRead(doc)
         /\ \A ref : Asked(ref)' <=> Asked(ref)
BY DEF TrueDocument, RefsRead, ManifestToRead, exactNpmManifest, Asked

(* A document that was answered, or the reason why none was, is true,      *)
(* unless another address answered.                                        *)
LEMMA GotDocumentKeeps ==
  ASSUME IInv, stage = "document", NEW got, GotDocument(got), losses' \in 0..MaxLosses,
         astray' \in BOOLEAN,
         ~astray' => /\ got.doc \in {NoDocument, TrueDocument.doc}
                     /\ got.reason = "package-not-found" => subject.document = NoDocument
  PROVE  IInv'
<1> DEFINE read == RefsRead(got.doc)
<1>1. /\ document' = got /\ refs' = read /\ heard' = [ref \in read |-> <<>>]
      /\ stage' = IF subject.caller = "repository" /\ got.doc = NoDocument THEN "judge" ELSE "scripts"
      /\ UNCHANGED <<subject, scripts, reasons, row>>
  BY DEF GotDocument, RefsRead
<1>2. /\ \A doc : RefsRead(doc)' = RefsRead(doc)
      /\ \A ref : Asked(ref)' <=> Asked(ref)
  BY <1>1, SubjectStays
<1>3. DOMAIN scripts = {} /\ DOMAIN reasons = {}
  <2>1. document.doc = NoDocument
    BY DEF IInv, DocumentTrue
  <2>2. DOMAIN heard = {}
    BY <2>1, NoRefsToRead DEF IInv, HeardTrue
  <2>3. QED
    BY <2>2 DEF IInv, HeardTrue
<1>4. stage' \in {"judge", "scripts"} /\ (stage' = "judge" => read = {})
  BY <1>1, NoRefsToRead
<1>5. DocumentTrue'
  <2>1. ~astray
    BY DEF IInv, DocumentTrue
  <2>2. TrueDocument' = IF astray' THEN got ELSE TrueDocument
    BY <1>1, <2>1 DEF TrueDocument
  <2>3. document'.doc \in {NoDocument, TrueDocument'.doc}
    BY <1>1, <2>2
  <2>4. QED
    BY <1>1, <1>4, <2>3 DEF IInv, DocumentTrue, Stages
<1>6. HeardTrue'
  <2>1. DOMAIN heard' = RefsRead(document.doc)'
    BY <1>1, <1>2
  <2>2. \A ref \in read : heard'[ref] = <<>>
    BY <1>1
  <2> HIDE DEF read
  <2>3. <<>> \in Seq(Answer) /\ Len(<<>>) = 0
    OBVIOUS
  <2>4. QED
    BY <1>1, <1>3, <1>4, <2>1, <2>2, <2>3 DEF HeardTrue
<1>7. TextsTrue'
  BY <1>1, <1>3 DEF TextsTrue
<1>8. RowTrue'
  BY <1>1, <1>4 DEF IInv, RowTrue
<1>9. QED
  BY <1>5, <1>6, <1>7, <1>8 DEF IInv

(* A name that is not requested has a reason of its own. *)
LEMMA RefuseNameKeeps ==
  ASSUME IInv, RefuseName
  PROVE  IInv'
<1> DEFINE got == [doc |-> NoDocument, reason |-> "package-name-not-requested"]
<1>1. stage = "document" /\ GotDocument(got) /\ losses' = losses /\ astray' = astray
  BY DEF RefuseName
<1>2. got.doc = NoDocument /\ got.reason # "package-not-found"
  OBVIOUS
<1>3. losses' \in 0..MaxLosses /\ astray' \in BOOLEAN
  BY <1>1 DEF IInv, DocumentTrue
<1> HIDE DEF got
<1>4. QED
  BY <1>1, <1>2, <1>3, GotDocumentKeeps

(* A registry that answers or fails is believed as far as it went; whoever *)
(* it sends the request on to, the same.                                   *)
LEMMA FetchDocumentKeeps ==
  ASSUME IInv, FetchDocument
  PROVE  IInv'
<1>1. stage = "document" /\ (subject.type = "npm" => subject.named)
  BY DEF FetchDocument
<1>2. losses \in 0..MaxLosses /\ MaxLosses \in Nat
  BY AuditAssumption DEF IInv, DocumentTrue
<1>3. astray \in BOOLEAN /\ ~astray /\ TrueDocument.doc = subject.document
  BY <1>1 DEF TrueDocument, IInv, DocumentTrue
<1>4. CASE GotDocument(DocumentOf(Honest(subject.document))) /\ UNCHANGED <<losses, astray>>
  <2> DEFINE got == DocumentOf(Honest(subject.document))
  <2>0. losses' = losses /\ astray' \in BOOLEAN
    BY <1>3, <1>4
  <2>1. CASE subject.document = NoDocument
    <3>1. got.doc = NoDocument
      BY <2>1 DEF DocumentOf, Honest, Told
    <3>2. QED
      BY <1>1, <1>2, <1>4, <2>0, <2>1, <3>1, GotDocumentKeeps
  <2>2. CASE subject.document # NoDocument
    <3>1. got.doc \in {NoDocument, subject.document} /\ got.reason # "package-not-found"
      BY <2>2 DEF DocumentOf, Honest, Told
    <3>2. QED
      BY <1>1, <1>2, <1>3, <1>4, <2>0, <3>1, GotDocumentKeeps
  <2>3. QED
    BY <2>1, <2>2
<1>5. ASSUME Lost, losses' = losses + 1, UNCHANGED astray,
             NEW answer \in {Told(0, NoDocument), Told(503, NoDocument), Told(200, Garbage)},
             GotDocument(DocumentOf(answer))
      PROVE  IInv'
  <2> DEFINE got == DocumentOf(answer)
  <2>1. got.doc = NoDocument /\ got.reason # "package-not-found"
    BY DEF DocumentOf, Told, fetchFailureReason
  <2>2. losses' \in 0..MaxLosses /\ astray' \in BOOLEAN
    BY <1>2, <1>3, <1>5 DEF Lost
  <2> HIDE DEF got
  <2>3. GotDocument(got)
    BY <1>5 DEF got
  <2>4. QED
    BY <1>1, <2>1, <2>2, <2>3, GotDocumentKeeps
<1>6. ASSUME Lost, losses' = losses + 1, astray' = TRUE, NEW elsewhere,
             GotDocument(DocumentOf(Honest(elsewhere)))
      PROVE  IInv'
  <2>1. losses' \in 0..MaxLosses
    BY <1>2, <1>6 DEF Lost
  <2>2. QED
    BY <1>1, <1>6, <2>1, GotDocumentKeeps
<1>7. CASE /\ Lost /\ losses' = losses + 1 /\ astray' = TRUE
            /\ \E elsewhere \in subject.elsewhere : GotDocument(DocumentOf(Honest(elsewhere)))
  BY <1>6, <1>7
<1>8. CASE /\ Lost /\ losses' = losses + 1 /\ UNCHANGED astray
            /\ \E answer \in {Told(0, NoDocument), Told(503, NoDocument), Told(200, Garbage)} :
                  GotDocument(DocumentOf(answer))
  BY <1>5, <1>8
<1>9. QED
  BY <1>4, <1>7, <1>8, Zenon DEF FetchDocument

(* A path that is not asked for says so. *)
LEMMA RefuseScriptKeeps ==
  ASSUME IInv, NEW ref \in refs, RefuseScript(ref)
  PROVE  IInv'
<1>1. /\ stage = "scripts" /\ ~Asked(ref) /\ refs' = refs \ {ref}
      /\ reasons' = [r \in DOMAIN reasons \cup {ref} |->
                        IF r = ref THEN "hook-script-path-not-requested" ELSE reasons[r]]
      /\ UNCHANGED <<subject, stage, document, heard, scripts, row, losses, astray>>
  BY DEF RefuseScript, Asked
<1>2. /\ TrueDocument' = TrueDocument
      /\ \A doc : RefsRead(doc)' = RefsRead(doc)
      /\ \A r : Asked(r)' <=> Asked(r)
  BY <1>1, SubjectStays
<1>3. DOMAIN reasons' = DOMAIN reasons \cup {ref}
  BY <1>1
<1>4. ref \in DOMAIN heard /\ ref \notin DOMAIN scripts
  BY DEF IInv, HeardTrue
<1>5. DocumentTrue'
  BY <1>1, <1>2 DEF IInv, DocumentTrue
<1>6. HeardTrue'
  <2>1. DOMAIN heard' = RefsRead(document.doc)'
    BY <1>1, <1>2 DEF IInv, HeardTrue
  <2>2. /\ refs' \subseteq DOMAIN heard'
        /\ DOMAIN scripts' \cup DOMAIN reasons' = DOMAIN heard' \ refs'
        /\ DOMAIN scripts' \cap DOMAIN reasons' = {}
        /\ refs' \subseteq refs
    BY <1>1, <1>3, <1>4 DEF IInv, HeardTrue
  <2>3. QED
    BY <1>1, <2>1, <2>2 DEF IInv, HeardTrue
<1>7. TextsTrue'
  BY <1>1, <1>2, <1>3 DEF IInv, TextsTrue
<1>8. RowTrue'
  BY <1>1 DEF IInv, RowTrue
<1>9. QED
  BY <1>5, <1>6, <1>7, <1>8 DEF IInv

(* Only a file that is not there is answered 404. *)
LEMMA AnswerIsTrue ==
  ASSUME NEW ref, NEW answer \in CdnAnswers(ref)
  PROVE  /\ answer \in Answer
         /\ answer.status = 404 => ref \notin DOMAIN subject.files
         /\ answer.status = 200 => ref \in DOMAIN subject.files
         /\ answer.redirected \/ answer.status \in {0, 503} => Lost
<1>1. ASSUME NEW status \in {0, 503}, answer = Told(status, NoDocument), Lost
      PROVE  answer \in Answer /\ answer.status \in {0, 503}
  <2>1. answer = [status |-> status, body |-> NoDocument, redirected |-> FALSE]
    BY <1>1 DEF Told
  <2>2. QED
    BY <2>1 DEF Answer
<1>2. CASE \E r \in IF Lost THEN BOOLEAN ELSE {FALSE} :
             answer = [Told(IF ref \in DOMAIN subject.files THEN 200 ELSE 404, NoDocument) EXCEPT !.redirected = r]
  <2>1. PICK r \in IF Lost THEN BOOLEAN ELSE {FALSE} :
             answer = [Told(IF ref \in DOMAIN subject.files THEN 200 ELSE 404, NoDocument) EXCEPT !.redirected = r]
    BY <1>2
  <2>2. answer = [status |-> IF ref \in DOMAIN subject.files THEN 200 ELSE 404, body |-> NoDocument, redirected |-> r]
    BY <2>1 DEF Told
  <2>3. r \in BOOLEAN /\ (r => Lost)
    OBVIOUS
  <2>4. QED
    BY <2>2, <2>3 DEF Answer
<1>3. CASE Lost /\ \E status \in {0, 503} : answer = Told(status, NoDocument)
  <2>1. PICK status \in {0, 503} : answer = Told(status, NoDocument)
    BY <1>3, Zenon
  <2>2. answer \in Answer /\ answer.status \in {0, 503}
    BY <1>1, <1>3, <2>1
  <2>3. answer.status # 404 /\ answer.status # 200
    BY ONLY <2>2
  <2>4. QED
    BY <1>3, <2>2, <2>3
<1> DEFINE found == Told(IF ref \in DOMAIN subject.files THEN 200 ELSE 404, NoDocument)
           turns == IF Lost THEN BOOLEAN ELSE {FALSE}
           bodies == {[found EXCEPT !.redirected = r] : r \in turns}
           losing == IF Lost THEN {Told(0, NoDocument), Told(503, NoDocument)} ELSE {}
<1>4. answer \in bodies \/ answer \in losing
  BY Zenon DEF CdnAnswers
<1>5. CASE answer \in bodies
  <2> HIDE DEF found, turns
  <2>1. \E r \in turns : answer = [found EXCEPT !.redirected = r]
    BY <1>5
  <2>2. QED
    BY <1>2, <2>1, Zenon DEF found, turns
<1>6. CASE answer \in losing
  <2>1. Lost /\ answer \in {Told(0, NoDocument), Told(503, NoDocument)}
    BY <1>6, Zenon
  <2>2. \E status \in {0, 503} : answer = Told(status, NoDocument)
    BY <2>1
  <2>3. QED
    BY <1>3, <2>1, <2>2, Zenon
<1>7. QED
  BY <1>4, <1>5, <1>6, Zenon

(* "not published" is said after an answer 404 only. *)
LEMMA NotPublishedWasAnswered ==
  ASSUME NEW answers \in Seq(Answer), hookScriptFailureReason(answers) = "hook-script-not-published"
  PROVE  \E i \in 1..Len(answers) : answers[i].status = 404
<1> DEFINE statuses == {answers[i].status : i \in {j \in DOMAIN answers : ~answers[j].redirected}}
<1>1. statuses = {404}
  BY DEF hookScriptFailureReason
<1>2. 404 \in statuses
  BY <1>1
<1>3. QED
  BY <1>2

(* A script that is answered is the published one; a miss is told as it    *)
(* was.                                                                    *)
LEMMA FetchScriptKeeps ==
  ASSUME IInv, NEW ref \in refs, FetchScript(ref)
  PROVE  IInv'
<1>1. PICK answer \in CdnAnswers(ref) :
          LET told == Append(heard[ref], answer)
              got == answer.status = 200 /\ ~answer.redirected
          IN  /\ heard' = [heard EXCEPT ![ref] = told]
              /\ losses' = IF answer.redirected \/ answer.status \in {0, 503} THEN losses + 1 ELSE losses
              /\ refs' = IF got \/ Len(told) = 2 THEN refs \ {ref} ELSE refs
              /\ scripts' = IF got THEN [r \in DOMAIN scripts \cup {ref} |-> subject.files[r]] ELSE scripts
              /\ reasons' = IF ~got /\ Len(told) = 2
                            THEN [r \in DOMAIN reasons \cup {ref} |-> IF r = ref THEN hookScriptFailureReason(told) ELSE reasons[r]]
                            ELSE reasons
  BY DEF FetchScript
<1> DEFINE told == Append(heard[ref], answer)
           got == answer.status = 200 /\ ~answer.redirected
<1>2. stage = "scripts" /\ Asked(ref) /\ UNCHANGED <<subject, stage, document, row, astray>>
  BY DEF FetchScript, Asked
<1>3. /\ TrueDocument' = TrueDocument
      /\ \A doc : RefsRead(doc)' = RefsRead(doc)
      /\ \A r : Asked(r)' <=> Asked(r)
  BY <1>2, SubjectStays
<1>4. /\ answer \in Answer
      /\ answer.status = 404 => ref \notin DOMAIN subject.files
      /\ answer.status = 200 => ref \in DOMAIN subject.files
      /\ answer.redirected \/ answer.status \in {0, 503} => Lost
  BY AnswerIsTrue
<1>5. /\ ref \in DOMAIN heard /\ ref \notin DOMAIN scripts \cup DOMAIN reasons
      /\ heard[ref] \in Seq(Answer) /\ Len(heard[ref]) <= 1
      /\ \A i \in 1..Len(heard[ref]) : heard[ref][i].status = 404 => ref \notin DOMAIN subject.files
  BY DEF IInv, HeardTrue
<1>6. /\ told \in Seq(Answer) /\ Len(told) \in 1..2
      /\ \A i \in 1..Len(told) : told[i].status = 404 => ref \notin DOMAIN subject.files
  BY <1>4, <1>5
<1>7. /\ DOMAIN heard' = DOMAIN heard /\ heard'[ref] = told
      /\ \A r \in DOMAIN heard \ {ref} : heard'[r] = heard[r]
  BY <1>1, <1>5
<1>8. /\ losses' = IF answer.redirected \/ answer.status \in {0, 503} THEN losses + 1 ELSE losses
      /\ refs' = IF got \/ Len(told) = 2 THEN refs \ {ref} ELSE refs
      /\ scripts' = IF got THEN [r \in DOMAIN scripts \cup {ref} |-> subject.files[r]] ELSE scripts
      /\ reasons' = IF ~got /\ Len(told) = 2
                    THEN [r \in DOMAIN reasons \cup {ref} |-> IF r = ref THEN hookScriptFailureReason(told) ELSE reasons[r]]
                    ELSE reasons
  BY <1>1
<1>9. got => ref \in DOMAIN subject.files
  BY <1>4
<1> HIDE DEF told, got
<1>10. ASSUME hookScriptFailureReason(told) = "hook-script-not-published" PROVE ref \notin DOMAIN subject.files
  <2>1. \E i \in 1..Len(told) : told[i].status = 404
    BY <1>6, <1>10, NotPublishedWasAnswered
  <2>2. QED
    BY <1>6, <2>1
<1>11. DocumentTrue'
  <2>1. losses' \in 0..MaxLosses
    BY <1>4, <1>8, AuditAssumption DEF Lost, IInv, DocumentTrue
  <2>2. QED
    BY <1>2, <1>3, <2>1 DEF IInv, DocumentTrue
<1>12. HeardTrue'
  <2>1. DOMAIN heard' = RefsRead(document.doc)'
    BY <1>2, <1>3, <1>7 DEF IInv, HeardTrue
  <2>2. /\ refs' \subseteq DOMAIN heard'
        /\ DOMAIN scripts' \cup DOMAIN reasons' = DOMAIN heard' \ refs'
        /\ DOMAIN scripts' \cap DOMAIN reasons' = {}
    <3>1. CASE got
      BY <1>5, <1>7, <1>8, <3>1 DEF IInv, HeardTrue
    <3>2. CASE ~got /\ Len(told) = 2
      BY <1>5, <1>7, <1>8, <3>2 DEF IInv, HeardTrue
    <3>3. CASE ~got /\ Len(told) # 2
      BY <1>5, <1>7, <1>8, <3>3 DEF IInv, HeardTrue
    <3>4. QED
      BY <3>1, <3>2, <3>3
  <2>3. ASSUME NEW r \in DOMAIN heard'
        PROVE  /\ heard'[r] \in Seq(Answer) /\ Len(heard'[r]) <= 2
               /\ r \in refs' => Len(heard'[r]) <= 1
               /\ \A i \in 1..Len(heard'[r]) : heard'[r][i].status = 404 => r \notin DOMAIN subject.files
    <3>1. CASE r = ref
      BY <1>6, <1>7, <1>8, <3>1
    <3>2. CASE r # ref
      BY <1>7, <1>8, <3>2 DEF IInv, HeardTrue
    <3>3. QED
      BY <3>1, <3>2
  <2>4. QED
    BY <1>2, <2>1, <2>2, <2>3 DEF HeardTrue
<1>13. TextsTrue'
  <2>1. ASSUME NEW r \in DOMAIN scripts'
        PROVE  Asked(r) /\ r \in DOMAIN subject.files /\ scripts'[r] = subject.files[r]
    BY <1>2, <1>8, <1>9 DEF IInv, TextsTrue
  <2>2. ASSUME NEW r \in DOMAIN reasons', reasons'[r] = "hook-script-not-published"
        PROVE  Asked(r) /\ r \notin DOMAIN subject.files
    BY <1>2, <1>8, <1>10, <2>2 DEF IInv, TextsTrue
  <2>3. QED
    BY <1>2, <1>3, <2>1, <2>2 DEF TextsTrue
<1>14. RowTrue'
  BY <1>2 DEF IInv, RowTrue
<1>15. QED
  BY <1>11, <1>12, <1>13, <1>14 DEF IInv

(* The row is built from what was heard. *)
LEMMA JudgeKeeps ==
  ASSUME IInv, Judge
  PROVE  IInv'
<1>1. /\ refs = {} /\ row' = Row(subject, document, scripts, reasons) /\ stage' = "done"
      /\ UNCHANGED <<subject, document, refs, heard, scripts, reasons, losses, astray>>
  BY DEF Judge
<1>2. /\ TrueDocument' = TrueDocument
      /\ \A doc : RefsRead(doc)' = RefsRead(doc)
      /\ \A r : Asked(r)' <=> Asked(r)
  BY <1>1, SubjectStays
<1>3. DocumentTrue'
  BY <1>1, <1>2 DEF IInv, DocumentTrue, Stages
<1>4. HeardTrue'
  BY <1>1, <1>2 DEF IInv, HeardTrue
<1>5. TextsTrue'
  BY <1>1, <1>2 DEF IInv, TextsTrue
<1>6. RowTrue'
  BY <1>1 DEF RowTrue
<1>7. QED
  BY <1>3, <1>4, <1>5, <1>6 DEF IInv

(* The invariant holds in every reachable state. *)
LEMMA SpecIInv == AuditSpec => []IInv
<1>1. ASSUME IInv, UNCHANGED auditVars PROVE IInv'
  <2>1. UNCHANGED <<subject, stage, document, refs, heard, scripts, reasons, row, losses, astray>>
    BY <1>1 DEF auditVars
  <2>2. /\ TrueDocument' = TrueDocument
        /\ \A doc : RefsRead(doc)' = RefsRead(doc)
        /\ \A r : Asked(r)' <=> Asked(r)
    BY <2>1, SubjectStays
  <2>3. DocumentTrue' /\ HeardTrue' /\ TextsTrue'
    BY <1>1, <2>1, <2>2 DEF IInv, DocumentTrue, HeardTrue, TextsTrue
  <2>4. RowTrue'
    BY <1>1, <2>1 DEF IInv, RowTrue
  <2>5. QED
    BY <2>3, <2>4 DEF IInv
<1>2. IInv /\ [AuditNext]_auditVars => IInv'
  BY <1>1, RefuseNameKeeps, FetchDocumentKeeps, RefuseScriptKeeps, FetchScriptKeeps, JudgeKeeps DEF AuditNext
<1>3. QED
  BY <1>2, InitIInv, PTL DEF AuditSpec

--------------------------------------------------------------------------------
(* What a judgement looks at: whether something is not known, and whether  *)
(* something is at the threshold.                                          *)
Unknown(findings) == \E f \in findings : f.severity \notin DOMAIN RANK
Severe(findings) == \E f \in findings : f.severity \in {"critical", "high", "medium"}

(* The severities that have a rank, and those that count as severe. *)
LEMMA Ranks ==
  /\ DOMAIN RANK = {"critical", "high", "medium", "low", "info"}
  /\ \A s \in DOMAIN RANK : RANK[s] >= RANK["medium"] <=> s \in {"critical", "high", "medium"}
BY DEF RANK

(* The verdict on a row is decided by its status and its findings. *)
LEMMA JudgementIs ==
  ASSUME NEW r
  PROVE  Judgement(r) = IF r.status # "audited" \/ Unknown(r.findings) THEN "incomplete"
                        ELSE IF Severe(r.findings) THEN "findings" ELSE "clean"
<1> DEFINE severities == {f.severity : f \in r.findings}
           status == IF r.status # "audited" THEN "unmeasured" ELSE IF r.findings = {} THEN "clean" ELSE "findings"
           block == [status |-> status, findings |-> severities]
           evidence == [name \in {"registryDocument"} |-> block]
           execution == executionFromBlocks(evidence)
<1>1. Judgement(r) = aggregateVerdict(evidence, "medium", execution)
  BY DEF Judgement
<1>2. block.status = status /\ block.findings = severities
  OBVIOUS
<1>3. severities = {} <=> r.findings = {}
  OBVIOUS
<1>4. Usable(block) <=> r.status = "audited"
  BY <1>2, <1>3 DEF Usable, Measured
<1>5. ~(severities \subseteq DOMAIN RANK) <=> Unknown(r.findings)
  BY DEF Unknown
<1>6. Notable(severities, "medium") <=> Severe(r.findings)
  <2>1. Notable(severities, "medium") <=> \E s \in severities : s \in {"critical", "high", "medium"}
    BY Ranks DEF Notable
  <2>2. QED
    BY <2>1 DEF Severe
<1>7. DOMAIN evidence = {"registryDocument"} /\ evidence["registryDocument"] = block
  OBVIOUS
<1>8. Complete(execution) <=> r.status = "audited"
  <2>1. /\ DOMAIN execution = {"registryDocument"} /\ execution["registryDocument"].required
        /\ execution["registryDocument"].status = IF Measured(block) THEN "completed" ELSE "failed"
    BY <1>7 DEF executionFromBlocks
  <2>2. Measured(block) <=> r.status = "audited"
    BY <1>2 DEF Measured
  <2> HIDE DEF execution
  <2>3. QED
    BY <2>1, <2>2 DEF Complete, RequiredOf, componentComplete
<1> HIDE DEF execution, status, severities, block
<1>9. FindingsOf(evidence) = severities
  BY <1>2, <1>7 DEF FindingsOf
<1> HIDE DEF evidence
<1>10. deriveVerdict(evidence, "medium") =
         IF r.status # "audited" \/ Unknown(r.findings) THEN "incomplete"
         ELSE IF Severe(r.findings) THEN "findings" ELSE "clean"
  BY <1>4, <1>5, <1>6, <1>7, <1>9 DEF deriveVerdict
<1>11. QED
  BY <1>1, <1>8, <1>10 DEF aggregateVerdict

--------------------------------------------------------------------------------
(* The findings of a package are those of its hooks, and others, which no  *)
(* file has a part in.                                                     *)
Hooks(doc) == HooksOf(exactNpmManifest(subject, doc))
OtherFindings(doc) ==
    FindingIf(subject.stdio, "stdio-transport", "info")
    \cup (IF doc = NoDocument THEN FindingIf(TRUE, "package-metadata-unavailable", "unknown")
          ELSE IF exactNpmManifest(subject, doc) = {} THEN FindingIf(TRUE, "declared-version-not-found", "unknown")
          ELSE UNION {ManifestFindings(subject, doc, m) : m \in exactNpmManifest(subject, doc)})

(* The findings of a package are those of its manifest and of each hook. *)
LEMMA PackageFindings ==
  ASSUME NEW doc, NEW texts, NEW why
  PROVE  auditPackage(subject, doc, texts, why) =
           OtherFindings(doc) \cup UNION {HookFindings(hook, texts, why) : hook \in Hooks(doc)}
<1> DEFINE found == UNION {HookFindings(hook, texts, why) : hook \in Hooks(doc)}
<1>1. doc = NoDocument \/ exactNpmManifest(subject, doc) = {} => Hooks(doc) = {}
  BY DEF Hooks, HooksOf, exactNpmManifest
<1>2. Hooks(doc) = {} => found = {}
  OBVIOUS
<1>3. auditPackage(subject, doc, texts, why) =
        FindingIf(subject.stdio, "stdio-transport", "info")
        \cup (IF doc = NoDocument THEN FindingIf(TRUE, "package-metadata-unavailable", "unknown")
              ELSE IF exactNpmManifest(subject, doc) = {} THEN FindingIf(TRUE, "declared-version-not-found", "unknown")
              ELSE found \cup UNION {ManifestFindings(subject, doc, m) : m \in exactNpmManifest(subject, doc)})
  BY DEF auditPackage, Hooks
<1> HIDE DEF found
<1>4. auditPackage(subject, doc, texts, why) = OtherFindings(doc) \cup found
  <2>1. CASE doc = NoDocument
    BY <1>1, <1>2, <1>3, <2>1 DEF OtherFindings
  <2>2. CASE doc # NoDocument /\ exactNpmManifest(subject, doc) = {}
    BY <1>1, <1>2, <1>3, <2>2 DEF OtherFindings
  <2>3. CASE doc # NoDocument /\ exactNpmManifest(subject, doc) # {}
    <3> DEFINE others == UNION {ManifestFindings(subject, doc, m) : m \in exactNpmManifest(subject, doc)}
               stdio == FindingIf(subject.stdio, "stdio-transport", "info")
    <3>1. auditPackage(subject, doc, texts, why) = stdio \cup (found \cup others)
      BY <1>3, <2>3
    <3>2. OtherFindings(doc) = stdio \cup others
      BY <2>3 DEF OtherFindings
    <3> HIDE DEF others, stdio
    <3>3. QED
      BY <3>1, <3>2
  <2>4. QED
    BY <2>1, <2>2, <2>3
<1>5. QED
  BY <1>4 DEF found

(* The files of the hooks are among those that are read. *)
LEMMA HookFileIsRead ==
  ASSUME subject.type = "npm", NEW doc, NEW hook \in Hooks(doc), hook.ref # NoRef
  PROVE  hook.ref \in RefsRead(doc)
<1>1. PICK m \in exactNpmManifest(subject, doc) : hook \in m.hooks
  BY DEF Hooks, HooksOf
<1>2. doc # NoDocument /\ subject.version \in DOMAIN doc.versions /\ m = doc.versions[subject.version]
  BY <1>1 DEF exactNpmManifest
<1>3. m \in ManifestToRead(subject, doc)
  BY <1>1, <1>2 DEF ManifestToRead
<1>4. QED
  BY <1>1, <1>3 DEF RefsRead, hookScriptRefs, HooksOf

--------------------------------------------------------------------------------
(* A judged package: its document, and what is known of each file.         *)
Judged == IInv /\ stage = "done"

(* A judged row is the row of what was heard. *)
LEMMA RowIs ==
  ASSUME Judged
  PROVE  /\ row = Row(subject, document, scripts, reasons)
         /\ DOMAIN scripts \cup DOMAIN reasons = RefsRead(document.doc)
         /\ NoRef \notin RefsRead(document.doc)
         /\ document.doc # NoDocument => document.doc = TrueDocument.doc
<1>1. row = Row(subject, document, scripts, reasons) /\ document.doc \in {NoDocument, TrueDocument.doc}
  BY DEF Judged, IInv, RowTrue, DocumentTrue
<1>2. refs = {} /\ DOMAIN scripts \cup DOMAIN reasons = RefsRead(document.doc)
  BY DEF Judged, IInv, HeardTrue
<1>3. NoRef \notin RefsRead(document.doc)
  BY DEF RefsRead, hookScriptRefs
<1>4. QED
  BY <1>1, <1>2, <1>3

(* The row of a faultless network, written the same way. *)
LEMMA TrueRowIs == TrueRow = Row(subject, TrueDocument, TrueTexts, TrueReasons)
BY DEF TrueRow, TrueDocument, TrueTexts, TrueReasons, RefsRead, Asked

(* A file that was read is the published one; one that is reported as not  *)
(* there is not there.                                                     *)
LEMMA FilesAgree ==
  ASSUME Judged, document.doc # NoDocument, NEW ref \in RefsRead(document.doc)
  PROVE  /\ ref \in DOMAIN scripts => ref \in DOMAIN TrueTexts /\ TrueTexts[ref] = scripts[ref]
         /\ ref \notin DOMAIN scripts /\ reasons[ref] = "hook-script-not-published" =>
              ref \notin DOMAIN TrueTexts /\ TrueReasons[ref] = "hook-script-not-published"
<1>1. /\ ref \in RefsRead(TrueDocument.doc)
      /\ ref \notin DOMAIN scripts => ref \in DOMAIN reasons
  BY RowIs
<1>2. ref \in DOMAIN TrueTexts <=> Asked(ref) /\ ref \in DOMAIN subject.files
  BY <1>1 DEF TrueTexts
<1>3. ref \in DOMAIN TrueTexts => TrueTexts[ref] = subject.files[ref]
  BY DEF TrueTexts
<1>4. ref \notin DOMAIN TrueTexts /\ Asked(ref) => TrueReasons[ref] = "hook-script-not-published"
  BY <1>1 DEF TrueReasons
<1>5. QED
  BY <1>1, <1>2, <1>3, <1>4 DEF Judged, IInv, TextsTrue

(* A hook whose file is known is judged as it would have been. *)
LEMMA KnownHookAgrees ==
  ASSUME Judged, document.doc # NoDocument, NEW hook,
         hook.ref # NoRef => /\ hook.ref \in RefsRead(document.doc)
                             /\ \/ hook.ref \in DOMAIN scripts
                                \/ reasons[hook.ref] = "hook-script-not-published"
  PROVE  HookFindings(hook, scripts, reasons) = HookFindings(hook, TrueTexts, TrueReasons)
<1>1. CASE hook.ref = NoRef
  <2>1. NoRef \notin DOMAIN scripts /\ NoRef \notin DOMAIN TrueTexts
    BY RowIs DEF TrueTexts
  <2>2. QED
    BY <1>1, <2>1 DEF HookFindings, installHookReads
<1>2. CASE hook.ref # NoRef /\ hook.ref \in DOMAIN scripts
  <2>1. hook.ref \in DOMAIN TrueTexts /\ TrueTexts[hook.ref] = scripts[hook.ref]
    BY <1>2, FilesAgree
  <2>2. QED
    BY <1>2, <2>1 DEF HookFindings, installHookReads, ScriptFinding
<1>3. CASE hook.ref # NoRef /\ hook.ref \notin DOMAIN scripts
  <2>1. /\ hook.ref \notin DOMAIN TrueTexts /\ TrueReasons[hook.ref] = "hook-script-not-published"
        /\ reasons[hook.ref] = "hook-script-not-published"
    BY <1>3, FilesAgree
  <2>2. QED
    BY <1>3, <2>1 DEF HookFindings, installHookReads, ScriptFinding
<1>4. QED
  BY <1>1, <1>2, <1>3

(* What a command says of itself has a rank; it is known what is critical. *)
LEMMA CriticalHookIsSevere ==
  ASSUME NEW hook, NEW texts, NEW why, criticalPatternOf(hook.text, "hook")
  PROVE  ~Unknown(HookFindings(hook, texts, why)) /\ Severe(HookFindings(hook, texts, why))
<1> DEFINE reads == installHookReads(hook, texts)
<1>1. reads \in {"info", "high"}
  BY DEF installHookReads
<1> HIDE DEF reads
<1>2. HookFindings(hook, texts, why) =
        {Finding("install-time-execution", reads, hook.ref)}
        \cup {Finding("install-hook-critical", "critical", hook.ref)}
  BY DEF HookFindings, reads
<1>3. QED
  BY <1>1, <1>2, Ranks DEF Unknown, Severe, Finding

(* A command that is not critical, and a file of which nothing is known,   *)
(* leave the hook unknown.                                                 *)
LEMMA LostFileIsUnknown ==
  ASSUME NEW hook, NEW texts, NEW why, ~criticalPatternOf(hook.text, "hook"), hook.ref # NoRef,
         ~Unknown(HookFindings(hook, texts, why))
  PROVE  hook.ref \in DOMAIN texts \/ why[hook.ref] = "hook-script-not-published"
<1>1. ScriptFinding(hook.ref, texts, why) \in HookFindings(hook, texts, why)
  BY DEF HookFindings
<1>2. SUFFICES ASSUME hook.ref \notin DOMAIN texts, why[hook.ref] # "hook-script-not-published"
               PROVE  FALSE
  OBVIOUS
<1>3. ScriptFinding(hook.ref, texts, why).severity = "unknown"
  BY <1>2 DEF ScriptFinding, Finding
<1>4. "unknown" \notin DOMAIN RANK
  BY Ranks
<1>5. QED
  BY <1>1, <1>3, <1>4 DEF Unknown

(* What was lost makes a hook unknown, or changes nothing of its weight.   *)
LEMMA HookBlursOnly ==
  ASSUME Judged, document.doc # NoDocument, NEW hook, hook.ref # NoRef => hook.ref \in RefsRead(document.doc),
         ~Unknown(HookFindings(hook, scripts, reasons))
  PROVE  /\ ~Unknown(HookFindings(hook, TrueTexts, TrueReasons))
         /\ Severe(HookFindings(hook, scripts, reasons)) <=> Severe(HookFindings(hook, TrueTexts, TrueReasons))
<1>1. CASE criticalPatternOf(hook.text, "hook")
  BY <1>1, CriticalHookIsSevere
<1>2. CASE ~criticalPatternOf(hook.text, "hook")
  <2>1. HookFindings(hook, scripts, reasons) = HookFindings(hook, TrueTexts, TrueReasons)
    BY <1>2, LostFileIsUnknown, KnownHookAgrees
  <2>2. QED
    BY <2>1
<1>3. QED
  BY <1>1, <1>2

(* Scripts that were not read add unknowns and hide nothing else. *)
LEMMA PackageBlursOnly ==
  ASSUME Judged, subject.type = "npm", document.doc # NoDocument,
         ~Unknown(auditPackage(subject, document.doc, scripts, reasons))
  PROVE  /\ ~Unknown(auditPackage(subject, document.doc, TrueTexts, TrueReasons))
         /\ Severe(auditPackage(subject, document.doc, scripts, reasons))
              <=> Severe(auditPackage(subject, document.doc, TrueTexts, TrueReasons))
<1> DEFINE doc == document.doc
           Got(hook) == HookFindings(hook, scripts, reasons)
           Real(hook) == HookFindings(hook, TrueTexts, TrueReasons)
           got == auditPackage(subject, doc, scripts, reasons)
           real == auditPackage(subject, doc, TrueTexts, TrueReasons)
<1>1. got = OtherFindings(doc) \cup UNION {Got(hook) : hook \in Hooks(doc)}
  BY PackageFindings
<1>2. real = OtherFindings(doc) \cup UNION {Real(hook) : hook \in Hooks(doc)}
  BY PackageFindings
<1>3. ASSUME NEW hook \in Hooks(doc), ~Unknown(Got(hook))
      PROVE  ~Unknown(Real(hook)) /\ (Severe(Got(hook)) <=> Severe(Real(hook)))
  <2>1. hook.ref # NoRef => hook.ref \in RefsRead(doc)
    BY HookFileIsRead
  <2>2. QED
    BY <1>3, <2>1, HookBlursOnly
<1>4. ~Unknown(got)
  OBVIOUS
<1> HIDE DEF doc, Got, Real, got, real
<1>5. ~Unknown(OtherFindings(doc)) /\ \A hook \in Hooks(doc) : ~Unknown(Got(hook))
  BY <1>1, <1>4 DEF Unknown
<1>6. ~Unknown(real)
  BY <1>2, <1>3, <1>5 DEF Unknown
<1>7. Severe(got) <=> Severe(OtherFindings(doc)) \/ \E hook \in Hooks(doc) : Severe(Got(hook))
  BY <1>1 DEF Severe
<1>8. Severe(real) <=> Severe(OtherFindings(doc)) \/ \E hook \in Hooks(doc) : Severe(Real(hook))
  BY <1>2 DEF Severe
<1>9. Severe(got) <=> Severe(real)
  BY <1>3, <1>5, <1>7, <1>8
<1>10. QED
  BY <1>6, <1>9 DEF got, real, doc

--------------------------------------------------------------------------------
(* The row                                                                 *)
Audited(got) == subject.type # "other" /\ (subject.caller = "registry" \/ got.doc # NoDocument)

(* The fields of a row, one by one. *)
LEMMA RowFields ==
  ASSUME NEW got, NEW texts, NEW why
  PROVE  LET r == Row(subject, got, texts, why)
         IN  /\ r.status = "audited" <=> Audited(got)
             /\ r.reason = IF subject.caller = "repository" THEN got.reason ELSE "none"
             /\ r.findings = IF ~Audited(got) THEN {}
                             ELSE IF subject.type = "npm" THEN auditPackage(subject, got.doc, texts, why)
                             ELSE auditPypiPackage(subject, got.doc)
             /\ r.complete <=> /\ Audited(got)
                              /\ IF subject.type = "npm" THEN registryProvenance(subject, got.doc, texts, why)
                                 ELSE subject.caller = "repository"
BY DEF Row, Audited

(* Without its document nothing is known of a package. *)
LEMMA NoDocumentIsUnknown ==
  ASSUME NEW texts, NEW why
  PROVE  /\ Unknown(auditPackage(subject, NoDocument, texts, why))
         /\ Unknown(auditPypiPackage(subject, NoDocument))
<1> DEFINE f == Finding("package-metadata-unavailable", "unknown", NoRef)
<1>1. f.severity \notin DOMAIN RANK
  BY Ranks DEF Finding
<1>2. f \in auditPackage(subject, NoDocument, texts, why) /\ f \in auditPypiPackage(subject, NoDocument)
  BY DEF auditPackage, auditPypiPackage, FindingIf
<1>3. QED
  BY <1>1, <1>2 DEF Unknown

(* A failure makes a verdict incomplete and never another one. *)
LEMMA BlurOnly ==
  ASSUME Judged
  PROVE  Judgement(row) \in {"incomplete", Judgement(TrueRow)}
<1>1. SUFFICES ASSUME row.status = "audited", ~Unknown(row.findings)
               PROVE  Judgement(row) = Judgement(TrueRow)
  BY JudgementIs
<1>2. row = Row(subject, document, scripts, reasons) /\ TrueRow = Row(subject, TrueDocument, TrueTexts, TrueReasons)
  BY RowIs, TrueRowIs
<1>3. Audited(document)
  BY <1>1, <1>2, RowFields
<1>4. row.findings = IF subject.type = "npm" THEN auditPackage(subject, document.doc, scripts, reasons)
                     ELSE auditPypiPackage(subject, document.doc)
  BY <1>2, <1>3, RowFields
<1>5. document.doc # NoDocument
  BY <1>1, <1>4, NoDocumentIsUnknown
<1>6. document.doc = TrueDocument.doc
  BY <1>5, RowIs
<1>7. Audited(TrueDocument)
  BY <1>3, <1>5, <1>6 DEF Audited
<1>8. /\ TrueRow.status = "audited"
      /\ TrueRow.findings = IF subject.type = "npm" THEN auditPackage(subject, document.doc, TrueTexts, TrueReasons)
                            ELSE auditPypiPackage(subject, document.doc)
  BY <1>2, <1>6, <1>7, RowFields
<1>9. ~Unknown(TrueRow.findings) /\ (Severe(row.findings) <=> Severe(TrueRow.findings))
  <2>1. CASE subject.type = "npm"
    BY <1>1, <1>4, <1>5, <1>8, <2>1, PackageBlursOnly
  <2>2. CASE subject.type # "npm"
    <3>1. row.findings = TrueRow.findings
      BY <1>4, <1>8, <2>2
    <3>2. QED
      BY <1>1, <3>1
  <2>3. QED
    BY <2>1, <2>2
<1>10. QED
  BY <1>1, <1>8, <1>9, JudgementIs

(* A complete row finds what there is to find. *)
LEMMA CompleteIsReal ==
  ASSUME Judged, row.complete
  PROVE  row.findings = TrueRow.findings
<1>1. row = Row(subject, document, scripts, reasons) /\ TrueRow = Row(subject, TrueDocument, TrueTexts, TrueReasons)
  BY RowIs, TrueRowIs
<1>2. /\ Audited(document)
      /\ IF subject.type = "npm" THEN registryProvenance(subject, document.doc, scripts, reasons)
         ELSE subject.caller = "repository"
  BY <1>1, RowFields
<1>3. document.doc # NoDocument
  BY <1>2 DEF Audited, registryProvenance, exactNpmManifest
<1>4. document.doc = TrueDocument.doc /\ Audited(TrueDocument)
  BY <1>2, <1>3, RowIs DEF Audited
<1>5. CASE subject.type # "npm"
  BY <1>1, <1>2, <1>4, <1>5, RowFields
<1>6. CASE subject.type = "npm"
  <2> DEFINE doc == document.doc
             Got(hook) == HookFindings(hook, scripts, reasons)
             Real(hook) == HookFindings(hook, TrueTexts, TrueReasons)
             got == auditPackage(subject, doc, scripts, reasons)
             real == auditPackage(subject, doc, TrueTexts, TrueReasons)
  <2>1. ASSUME NEW hook \in Hooks(doc) PROVE Got(hook) = Real(hook)
    <3>1. hook.ref # NoRef => hook.ref \in RefsRead(doc)
      BY <1>6, HookFileIsRead
    <3>2. hook.ref # NoRef => hook.ref \in hookScriptRefs(exactNpmManifest(subject, doc))
      BY DEF Hooks, hookScriptRefs
    <3>3. hook.ref # NoRef => hook.ref \in DOMAIN scripts \/ reasons[hook.ref] = "hook-script-not-published"
      BY <1>2, <1>6, <3>2 DEF registryProvenance
    <3>4. QED
      BY <1>3, <3>1, <3>3, KnownHookAgrees
  <2>2. row.findings = got /\ TrueRow.findings = real
    BY <1>1, <1>2, <1>4, <1>6, RowFields
  <2>3. got = OtherFindings(doc) \cup UNION {Got(hook) : hook \in Hooks(doc)}
    BY PackageFindings
  <2>4. real = OtherFindings(doc) \cup UNION {Real(hook) : hook \in Hooks(doc)}
    BY PackageFindings
  <2> HIDE DEF doc, Got, Real, got, real
  <2>5. {Got(hook) : hook \in Hooks(doc)} = {Real(hook) : hook \in Hooks(doc)}
    BY <2>1
  <2>6. QED
    BY <2>2, <2>3, <2>4, <2>5
<1>7. QED
  BY <1>5, <1>6

(* A finding that is made on a condition is of its rule. *)
LEMMA RuleOfOne ==
  ASSUME NEW condition, NEW rule, NEW severity, NEW f \in FindingIf(condition, rule, severity)
  PROVE  f.rule = rule
BY DEF FindingIf, Finding

(* Nothing that is said of the manifest itself is about a missing file. *)
LEMMA OthersAreNotOfAFile ==
  ASSUME NEW doc, NEW f \in OtherFindings(doc)
  PROVE  f.rule # "install-hook-script-missing-from-package"
<1>1. ASSUME NEW m, f \in ManifestFindings(subject, doc, m)
      PROVE  f.rule # "install-hook-script-missing-from-package"
  <2>1. f \in RepositoryFindings(m.repository, subject.repository) => f.rule \in {"package-repository-missing", "repository-mismatch"}
    BY RuleOfOne DEF RepositoryFindings
  <2>2. QED
    BY <1>1, <2>1, RuleOfOne DEF ManifestFindings
<1>2. QED
  BY <1>1, RuleOfOne DEF OtherFindings

(* Only a hook's file is reported as missing. *)
LEMMA MissingIsOfAFile ==
  ASSUME NEW doc, NEW texts, NEW why, NEW f \in auditPackage(subject, doc, texts, why),
         f.rule = "install-hook-script-missing-from-package"
  PROVE  /\ f.about # NoRef /\ f.about \notin DOMAIN texts /\ why[f.about] = "hook-script-not-published"
         /\ \E hook \in Hooks(doc) : hook.ref = f.about
<1>1. f \notin OtherFindings(doc)
  BY OthersAreNotOfAFile
<1>2. PICK hook \in Hooks(doc) : f \in HookFindings(hook, texts, why)
  BY <1>1, PackageFindings
<1>3. hook.ref # NoRef /\ f = ScriptFinding(hook.ref, texts, why)
  BY <1>2 DEF HookFindings, Finding
<1>4. hook.ref \notin DOMAIN texts /\ why[hook.ref] = "hook-script-not-published" /\ f.about = hook.ref
  BY <1>3 DEF ScriptFinding, Finding
<1>5. QED
  BY <1>2, <1>3, <1>4

(* A package is called missing only when it is. *)
LEMMA MissingIsMissing ==
  ASSUME Judged
  PROVE  AbsenceIsTrue
<1>1. row = Row(subject, document, scripts, reasons)
  BY RowIs
<1>2. row.reason = "package-not-found" /\ ~astray => subject.document = NoDocument
  BY <1>1, RowFields DEF Judged, IInv, DocumentTrue
<1>3. ASSUME NEW f \in row.findings, f.rule = "install-hook-script-missing-from-package"
      PROVE  f.about \notin DOMAIN subject.files
  <2>1. Audited(document)
    BY <1>1, RowFields
  <2>2. CASE subject.type = "npm"
    <3>1. f \in auditPackage(subject, document.doc, scripts, reasons)
      BY <1>1, <2>1, <2>2, RowFields
    <3>2. /\ f.about # NoRef /\ f.about \notin DOMAIN scripts /\ reasons[f.about] = "hook-script-not-published"
          /\ \E hook \in Hooks(document.doc) : hook.ref = f.about
      BY <1>3, <3>1, MissingIsOfAFile
    <3>3. f.about \in RefsRead(document.doc)
      BY <2>2, <3>2, HookFileIsRead
    <3>4. f.about \in DOMAIN reasons
      BY <3>2, <3>3, RowIs
    <3>5. QED
      BY <3>2, <3>4 DEF Judged, IInv, TextsTrue
  <2>3. CASE subject.type # "npm"
    <3>1. f \in auditPypiPackage(subject, document.doc)
      BY <1>1, <2>1, <2>3, RowFields
    <3>2. QED
      BY <1>3, <3>1 DEF auditPypiPackage, RepositoryFindings, FindingIf, Finding
  <2>4. QED
    BY <2>2, <2>3
<1>4. QED
  BY <1>2, <1>3 DEF AbsenceIsTrue

(* What PyPI says is never clean: nobody looked at what an install runs.   *)
LEMMA PypiIsNeverClean ==
  ASSUME NEW doc
  PROVE  Unknown(auditPypiPackage(subject, doc)) \/ Severe(auditPypiPackage(subject, doc))
<1>1. CASE doc = NoDocument
  BY <1>1, NoDocumentIsUnknown
<1>2. CASE doc # NoDocument
  <2>1. \/ Finding("declared-version-not-found", "unknown", NoRef) \in auditPypiPackage(subject, doc)
        \/ Finding("pypi-sdist-only", "medium", NoRef) \in auditPypiPackage(subject, doc)
        \/ Finding("pypi-install-time-unknown", "unknown", NoRef) \in auditPypiPackage(subject, doc)
    BY <1>2 DEF auditPypiPackage, FindingIf
  <2>2. "unknown" \notin DOMAIN RANK
    BY Ranks
  <2>3. QED
    BY <2>1, <2>2 DEF Unknown, Severe, Finding
<1>3. QED
  BY <1>1, <1>2

(* A clean package was read to its last script. *)
LEMMA CleanIsRead ==
  ASSUME Judged, Judgement(row) = "clean"
  PROVE  row.complete
<1>1. row.status = "audited" /\ ~Unknown(row.findings) /\ ~Severe(row.findings)
  BY JudgementIs
<1>2. row = Row(subject, document, scripts, reasons)
  BY RowIs
<1>3. /\ Audited(document)
      /\ row.findings = IF subject.type = "npm" THEN auditPackage(subject, document.doc, scripts, reasons)
                        ELSE auditPypiPackage(subject, document.doc)
  BY <1>1, <1>2, RowFields
<1>4. subject.type = "npm" /\ document.doc # NoDocument
  BY <1>1, <1>3, PypiIsNeverClean, NoDocumentIsUnknown
<1> DEFINE doc == document.doc
           found == auditPackage(subject, doc, scripts, reasons)
<1>5. exactNpmManifest(subject, doc) # {}
  <2>1. SUFFICES ASSUME exactNpmManifest(subject, doc) = {} PROVE FALSE
    OBVIOUS
  <2>2. Finding("declared-version-not-found", "unknown", NoRef) \in found
    BY <1>4, <2>1 DEF auditPackage, FindingIf
  <2>3. QED
    BY <1>1, <1>3, <1>4, <2>2, Ranks DEF Unknown, Finding
<1>6. ASSUME NEW ref \in hookScriptRefs(exactNpmManifest(subject, doc))
      PROVE  ref \in DOMAIN scripts \/ reasons[ref] = "hook-script-not-published"
  <2>1. PICK hook \in Hooks(doc) : hook.ref = ref /\ ref # NoRef
    BY DEF hookScriptRefs, Hooks
  <2>2. HookFindings(hook, scripts, reasons) \subseteq found
    BY PackageFindings
  <2>3. ~Unknown(HookFindings(hook, scripts, reasons)) /\ ~Severe(HookFindings(hook, scripts, reasons))
    BY <1>1, <1>3, <1>4, <2>2 DEF Unknown, Severe
  <2>4. ~criticalPatternOf(hook.text, "hook")
    BY <2>3, CriticalHookIsSevere
  <2>5. QED
    BY <2>1, <2>3, <2>4, LostFileIsUnknown
<1>7. registryProvenance(subject, doc, scripts, reasons)
  BY <1>4, <1>5, <1>6 DEF registryProvenance
<1>8. QED
  BY <1>2, <1>3, <1>4, <1>7, RowFields

--------------------------------------------------------------------------------
(* Every finding has one of the severities that are known of. *)
Graded(findings) == \A f \in findings : f.severity \in Severity

(* The severities a finding may have. *)
LEMMA Severities == Severity = {"critical", "high", "medium", "low", "info", "unknown"}
BY Ranks DEF Severity

(* A finding made under a condition is graded. *)
LEMMA OneIsGraded ==
  ASSUME NEW condition, NEW rule, NEW severity \in Severity
  PROVE  Graded(FindingIf(condition, rule, severity))
BY DEF Graded, FindingIf, Finding

(* The findings about a repository are graded. *)
LEMMA RepositoryIsGraded ==
  ASSUME NEW named, NEW registered
  PROVE  Graded(RepositoryFindings(named, registered))
<1> DEFINE missing == IF repoKey(registered) = NoRepository THEN "medium" ELSE "low"
           differ == NoRepository \notin {repoKey(named), repoKey(registered)} /\ repoKey(named) # repoKey(registered)
<1>1. missing \in Severity /\ "medium" \in Severity
  BY Severities
<1>2. RepositoryFindings(named, registered) =
        IF named = NoRepository THEN FindingIf(TRUE, "package-repository-missing", missing)
        ELSE FindingIf(differ, "repository-mismatch", "medium")
  BY DEF RepositoryFindings
<1> HIDE DEF missing, differ
<1>3. QED
  BY <1>1, <1>2, OneIsGraded

(* The findings about a hook are graded. *)
LEMMA HookIsGraded ==
  ASSUME NEW hook, NEW texts, NEW why
  PROVE  Graded(HookFindings(hook, texts, why))
<1> DEFINE first == Finding("install-time-execution", installHookReads(hook, texts), hook.ref)
           critical == Finding("install-hook-critical", "critical", hook.ref)
           script == ScriptFinding(hook.ref, texts, why)
<1>1. first.severity \in Severity
  BY Severities DEF Finding, installHookReads
<1>2. critical.severity \in Severity
  BY Severities DEF Finding
<1>3. script.severity \in Severity
  BY Severities DEF ScriptFinding, Finding
<1>4. HookFindings(hook, texts, why) \subseteq {first, critical, script}
  BY DEF HookFindings
<1> HIDE DEF first, critical, script
<1>5. QED
  BY <1>1, <1>2, <1>3, <1>4 DEF Graded

(* The findings about a manifest are graded. *)
LEMMA ManifestIsGraded ==
  ASSUME NEW doc, NEW m
  PROVE  Graded(ManifestFindings(subject, doc, m))
<1>1. "info" \in Severity
  BY Severities
<1>2. QED
  BY <1>1, OneIsGraded, RepositoryIsGraded DEF ManifestFindings, Graded

(* The findings about an npm package are graded. *)
LEMMA PackageIsGraded ==
  ASSUME NEW doc, NEW texts, NEW why
  PROVE  Graded(auditPackage(subject, doc, texts, why))
<1> DEFINE found == UNION {HookFindings(hook, texts, why) : hook \in Hooks(doc)}
<1>1. Graded(found)
  BY HookIsGraded DEF Graded
<1>2. Graded(OtherFindings(doc))
  <2> DEFINE manifests == UNION {ManifestFindings(subject, doc, m) : m \in exactNpmManifest(subject, doc)}
             stdio == FindingIf(subject.stdio, "stdio-transport", "info")
             unavailable == FindingIf(TRUE, "package-metadata-unavailable", "unknown")
             absent == FindingIf(TRUE, "declared-version-not-found", "unknown")
  <2>1. Graded(manifests)
    BY ManifestIsGraded DEF Graded
  <2>2. Graded(stdio) /\ Graded(unavailable) /\ Graded(absent)
    <3>1. "info" \in Severity /\ "unknown" \in Severity
      BY Severities
    <3>2. QED
      BY <3>1, OneIsGraded
  <2>3. OtherFindings(doc) \subseteq stdio \cup unavailable \cup absent \cup manifests
    BY DEF OtherFindings
  <2> HIDE DEF manifests, stdio, unavailable, absent
  <2>4. QED
    BY <2>1, <2>2, <2>3 DEF Graded
<1>3. auditPackage(subject, doc, texts, why) = OtherFindings(doc) \cup found
  BY PackageFindings
<1> HIDE DEF found
<1>4. QED
  BY <1>1, <1>2, <1>3 DEF Graded

(* The findings about a PyPI package are graded. *)
LEMMA PypiIsGraded ==
  ASSUME NEW doc
  PROVE  Graded(auditPypiPackage(subject, doc))
<1>1. "info" \in Severity /\ "medium" \in Severity /\ "unknown" \in Severity
  BY Severities
<1>2. CASE doc = NoDocument
  BY <1>1, <1>2, OneIsGraded DEF auditPypiPackage
<1>3. CASE doc # NoDocument
  <2> DEFINE files == IF subject.version \in DOMAIN doc.releases THEN doc.releases[subject.version] ELSE {}
             repository == RepositoryFindings(doc.repository, subject.repository)
             built == IF files = {} THEN FindingIf(TRUE, "declared-version-not-found", "unknown")
                      ELSE IF \A f \in files : ~f.wheel THEN FindingIf(TRUE, "pypi-sdist-only", "medium")
                      ELSE FindingIf(TRUE, "pypi-install-time-unknown", "unknown")
             latest == FindingIf(doc.latest \notin {"none", subject.version}, "declared-version-not-latest", "info")
             yanked == FindingIf(\E f \in files : f.yanked, "package-yanked", "info")
  <2>1. Graded(repository)
    BY RepositoryIsGraded
  <2>2. Graded(built)
    BY <1>1, OneIsGraded
  <2>3. Graded(latest) /\ Graded(yanked)
    BY <1>1, OneIsGraded
  <2>4. auditPypiPackage(subject, doc) = repository \cup built \cup latest \cup yanked
    BY <1>3 DEF auditPypiPackage
  <2> HIDE DEF files, repository, built, latest, yanked
  <2>5. QED
    BY <2>1, <2>2, <2>3, <2>4 DEF Graded
<1>4. QED
  BY <1>2, <1>3

(* Every finding of a row has a severity. *)
LEMMA RowIsGraded ==
  ASSUME IInv
  PROVE  Graded(row.findings)
<1>1. CASE row = NoRow
  BY <1>1 DEF NoRow, Graded
<1>2. CASE row = Row(subject, document, scripts, reasons)
  <2>1. \/ row.findings = {}
        \/ row.findings = auditPackage(subject, document.doc, scripts, reasons)
        \/ row.findings = auditPypiPackage(subject, document.doc)
    BY <1>2, RowFields
  <2>2. QED
    BY <2>1, PackageIsGraded, PypiIsGraded DEF Graded
<1>3. QED
  BY <1>1, <1>2 DEF IInv, RowTrue

(* Whatever is published of a package, and whichever requests for its      *)
(* document and its files go wrong, the audit of mcp-audit.mjs and         *)
(* audit-packages.mjs is honest: a lost request can make a verdict         *)
(* incomplete and cannot turn it, complete evidence is the evidence of a   *)
(* faultless run, what is reported missing is missing, and "clean" is said *)
(* over complete evidence only.                                            *)
THEOREM AuditIsAlwaysHonest == AuditSpec => []AuditIsHonest
<1>1. ASSUME IInv PROVE AuditTypeOK
  BY <1>1, RowIsGraded DEF IInv, DocumentTrue, HeardTrue, Stages, Graded, AuditTypeOK
<1>2. ASSUME IInv, stage = "done"
      PROVE  FaultsOnlyBlur /\ CompleteIsFaultless /\ AbsenceIsTrue /\ CleanMeansRead
  <2>1. Judged
    BY <1>2 DEF Judged
  <2>2. QED
    BY <2>1, BlurOnly, CompleteIsReal, MissingIsMissing, CleanIsRead
    DEF FaultsOnlyBlur, CompleteIsFaultless, CleanMeansRead
<1>3. stage # "done" => FaultsOnlyBlur /\ CompleteIsFaultless /\ AbsenceIsTrue /\ CleanMeansRead
  BY DEF FaultsOnlyBlur, CompleteIsFaultless, AbsenceIsTrue, CleanMeansRead
<1>4. IInv => AuditIsHonest
  BY <1>1, <1>2, <1>3 DEF AuditIsHonest
<1>5. QED
  BY <1>4, SpecIInv, PTL
================================================================================
