---------------------------- MODULE ReportPhotos ----------------------------
(***************************************************************************)
(* The photos of a completed ticket, from the request to the report.       *)
(*                                                                         *)
(* A request prepares its photos, creates the operation and stores them    *)
(* through every adapter that is switched on: S3, whose public links go    *)
(* into the comment, and TechPortal, which takes the file itself.  If S3   *)
(* is only there for the GIS the photos are staged in it afterwards.  The  *)
(* report is sent later, by whoever finds the operation, from what S3 then *)
(* holds.  Completion has the mark, the leases and the retries; here they  *)
(* are one step each.                                                      *)
(***************************************************************************)
EXTENDS Naturals

CONSTANTS Press,       \* requests with the operation's key
          PhotoLimit,  \* photos in a report
          MaxBroken    \* bound: restarts

ASSUME PhotosAssumption == PhotoLimit \in Nat /\ MaxBroken \in Nat

VARIABLES
  storage,    \* S3: "off", "private" (for the GIS only) or "public"
  attaching,  \* the TechPortal adapter is switched on
  row,        \* the operation; links: photos its comment links to
  bucket,     \* objects in S3, by request and photo
  files,      \* files attached to the ticket
  stage,      \* of a request
  count,      \* its photos, and whether it reports to the GIS
  wantsGis,
  ready,      \* photos it has prepared, then photos of the current adapter done
  made,       \* copies made so far: adapter and photo
  sent,       \* the GIS has the report
  report,     \* photos in it
  broken

deployVars == <<storage, attaching>>
pressVars  == <<stage, count, wantsGis, ready, made>>
gisVars    == <<sent, report>>
photoVars  == <<deployVars, row, bucket, files, pressVars, gisVars, broken>>

Stages == {"idle", "preparing", "begin", "s3", "techportal", "staging", "recording", "done"}

\* ObjectStorage.configured, techportal_enabled; TechPortalPhotoDelivery.available
Configured == storage # "off"
Enabled(adapter) == IF adapter = "s3" THEN storage = "public" ELSE attaching
Available == \E a \in {"s3", "techportal"} : Enabled(a)

PhotosInit ==
  /\ storage \in {"off", "private", "public"} /\ attaching \in BOOLEAN
  /\ row = [status |-> "none", gis |-> FALSE, n |-> 0, by |-> {}, copies |-> {}, links |-> {}]
  /\ bucket = {} /\ files = {}
  /\ stage = [p \in Press |-> "idle"]
  /\ count = [p \in Press |-> 0]
  /\ wantsGis = [p \in Press |-> FALSE]
  /\ ready = [p \in Press |-> 0]
  /\ made = [p \in Press |-> {}]
  /\ sent = FALSE /\ report = {} /\ broken = 0

-----------------------------------------------------------------------------
To(p, s) == stage' = [stage EXCEPT ![p] = s] /\ ready' = [ready EXCEPT ![p] = 0]

\* The checks of the route and of begin: too many photos, or nowhere to put them.
Refused(n, gis) ==
  \/ n > PhotoLimit
  \/ n > 0 /\ ~gis /\ ~Available
  \/ n > 0 /\ gis /\ ~Configured

Submit(p, n, gis) ==
  /\ stage[p] = "idle"
  /\ count' = [count EXCEPT ![p] = n]
  /\ wantsGis' = [wantsGis EXCEPT ![p] = gis]
  /\ To(p, IF Refused(n, gis) THEN "done" ELSE "preparing")
  /\ UNCHANGED <<deployVars, row, bucket, files, made, gisVars, broken>>

\* normalize_report_photo, one decoder at a time: a photo that is too large or
\* cannot be read refuses the request.
Prepare(p) ==
  /\ stage[p] = "preparing"
  /\ IF ready[p] = count[p] THEN To(p, "begin")
     ELSE \/ ready' = [ready EXCEPT ![p] = @ + 1] /\ UNCHANGED stage
          \/ To(p, "done")
  /\ UNCHANGED <<deployVars, row, bucket, files, count, wantsGis, made, gisVars, broken>>

\* begin: the ticket may be somebody else's, the key may be used already.  Texts
\* and the object must be the same then; photos are not compared.
BeginReport(p) ==
  /\ stage[p] = "begin"
  /\ \/ To(p, "done") /\ UNCHANGED row
     \/ /\ row.status = "none" /\ ~Refused(count[p], wantsGis[p])
        /\ row' = [row EXCEPT !.status = "prepared", !.gis = wantsGis[p], !.n = count[p],
                              !.by = {p}]
        /\ To(p, "s3")
  /\ UNCHANGED <<deployVars, bucket, files, count, wantsGis, made, gisVars, broken>>

\* Whether the current adapter, or the staging, has photos to store.
Storing(p) ==
  /\ ready[p] < count[p]
  /\ \/ stage[p] \in {"s3", "techportal"} /\ Enabled(stage[p])
     \/ stage[p] = "staging" /\ wantsGis[p] /\ ~Enabled("s3")

\* put_object fails, before S3 has the object or after.
PutFails(p) == bucket' \in {bucket, bucket \cup {<<p, ready[p] + 1>>}} /\ UNCHANGED files

\* upload_ticket_file: no session, no CSRF token, an error or no answer, which may
\* hide that the file was attached.
UploadFails(p) == files' \in {files, files \cup {<<p, ready[p] + 1>>}} /\ UNCHANGED bucket

\* An ApiError of an adapter: what is stored stays there.
SaveFails(p) ==
  /\ Storing(p)
  /\ row' = [row EXCEPT !.status = "completion_failed"]
  /\ To(p, "done")
  /\ IF stage[p] = "techportal" THEN UploadFails(p) ELSE PutFails(p)
  /\ UNCHANGED <<deployVars, count, wantsGis, made, gisVars, broken>>

\* The next photo is in S3, or attached to the ticket.
Stored(p, adapter, next) ==
  IF ready[p] = count[p] THEN To(p, next) /\ UNCHANGED <<bucket, files, made>>
  ELSE LET k == ready[p] + 1 IN
       /\ ready' = [ready EXCEPT ![p] = k]
       /\ made' = [made EXCEPT ![p] = @ \cup {<<adapter, k>>}]
       /\ bucket' = IF adapter = "techportal" THEN bucket ELSE bucket \cup {<<p, k>>}
       /\ files' = IF adapter = "techportal" THEN files \cup {<<p, k>>} ELSE files
       /\ UNCHANGED stage

\* Mutant of SavePhoto: S3 gives out links whenever it is configured.
SavePhotoConfigured(p) ==
  /\ stage[p] \in {"s3", "techportal"}
  /\ LET next == IF stage[p] = "s3" THEN "techportal" ELSE "staging" IN
     IF Enabled(stage[p]) \/ (stage[p] = "s3" /\ Configured) THEN Stored(p, stage[p], next)
     ELSE To(p, next) /\ UNCHANGED <<bucket, files, made>>
  /\ UNCHANGED <<deployVars, row, count, wantsGis, gisVars, broken>>

\* save: adapter after adapter, photo after photo.
SavePhoto(p) ==
  /\ stage[p] \in {"s3", "techportal"}
  /\ LET next == IF stage[p] = "s3" THEN "techportal" ELSE "staging" IN
     IF Enabled(stage[p]) THEN Stored(p, stage[p], next)
     ELSE To(p, next) /\ UNCHANGED <<bucket, files, made>>
  /\ UNCHANGED <<deployVars, row, count, wantsGis, gisVars, broken>>

\* Mutant of StagePhoto: photos that any adapter has saved are not staged.
StagePhotoUnsaved(p) ==
  /\ stage[p] = "staging"
  /\ IF wantsGis[p] /\ ~Available THEN Stored(p, "staged", "recording")
     ELSE To(p, "recording") /\ UNCHANGED <<bucket, files, made>>
  /\ UNCHANGED <<deployVars, row, count, wantsGis, gisVars, broken>>

\* stage_for_gis, unless save has put them into S3 already.
StagePhoto(p) ==
  /\ stage[p] = "staging"
  /\ IF wantsGis[p] /\ ~Enabled("s3") THEN Stored(p, "staged", "recording")
     ELSE To(p, "recording") /\ UNCHANGED <<bucket, files, made>>
  /\ UNCHANGED <<deployVars, row, count, wantsGis, gisVars, broken>>

\* The copies and the comment with the links are written, the mark may follow.
RecordPhotos(p) ==
  /\ stage[p] = "recording"
  /\ row' = [row EXCEPT !.status = "marking", !.copies = made[p],
                        !.links = {k \in 1..count[p] : <<"s3", k>> \in made[p]}]
  /\ To(p, "done")
  /\ UNCHANGED <<deployVars, bucket, files, count, wantsGis, made, gisVars, broken>>

\* mark_techportal, in Completion.
MarkTicket ==
  /\ row.status = "marking"
  /\ \E s \in {"completed", "completion_failed"} : row' = [row EXCEPT !.status = s]
  /\ UNCHANGED <<deployVars, bucket, files, pressVars, gisVars, broken>>

\* _gis_photo_key: photos with an S3 copy, saved or staged.
Keyed == {k \in 1..row.n : \E a \in {"s3", "staged"} : <<a, k>> \in row.copies}

\* send_gis reads the photos by their keys; without a key, or with S3 switched off,
\* the report is left to an administrator.
SendReport ==
  /\ row.status = "completed" /\ row.gis /\ ~sent
  /\ Keyed = 1..row.n /\ (row.n > 0 => Configured)
  /\ sent' = TRUE
  /\ report' = {k \in Keyed : \E p \in row.by : <<p, k>> \in bucket}
  /\ UNCHANGED <<deployVars, row, bucket, files, pressVars, broken>>

\* The processes are restarted, with other settings perhaps; requests are lost.
Restart ==
  /\ broken < MaxBroken
  /\ broken' = broken + 1
  /\ storage' \in {"off", "private", "public"} /\ attaching' \in BOOLEAN
  /\ stage' = [p \in Press |-> IF stage[p] = "idle" THEN "idle" ELSE "done"]
  /\ UNCHANGED <<row, bucket, files, count, wantsGis, ready, made, gisVars>>

PhotosNext ==
  \/ \E p \in Press :
       \/ \E n \in 0..PhotoLimit + 1, gis \in BOOLEAN : Submit(p, n, gis)
       \/ Prepare(p) \/ BeginReport(p) \/ SavePhoto(p) \/ SaveFails(p)
       \/ StagePhoto(p) \/ RecordPhotos(p)
  \/ MarkTicket \/ SendReport \/ Restart

PhotosSpec == PhotosInit /\ [][PhotosNext]_photoVars

-----------------------------------------------------------------------------
\* Every variable holds a value of its kind.
PhotosTypeOK ==
  /\ storage \in {"off", "private", "public"} /\ attaching \in BOOLEAN
  /\ row \in [status : {"none", "prepared", "marking", "completed", "completion_failed"},
              gis : BOOLEAN, n : 0..PhotoLimit, by : SUBSET Press,
              copies : SUBSET ({"s3", "techportal", "staged"} \X (1..PhotoLimit)),
              links : SUBSET (1..PhotoLimit)]
  /\ bucket \subseteq Press \X (1..PhotoLimit) /\ files \subseteq Press \X (1..PhotoLimit)
  /\ stage \in [Press -> Stages]
  /\ count \in [Press -> 0..PhotoLimit + 1] /\ wantsGis \in [Press -> BOOLEAN]
  /\ ready \in [Press -> 0..PhotoLimit + 1]
  /\ made \in [Press -> SUBSET ({"s3", "techportal", "staged"} \X (1..PhotoLimit))]
  /\ sent \in BOOLEAN /\ report \subseteq 1..PhotoLimit /\ broken \in 0..MaxBroken

\* README: "sending to the GIS again reads the photos from S3".  Once the ticket may
\* be marked, S3 has every photo of a report for the GIS under a key the row names,
\* whichever adapters were on, and the report that is sent has them all.
PhotosReachGis ==
  /\ row.status \in {"marking", "completed"} /\ row.gis
       => Keyed = 1..row.n /\ \A p \in row.by : \A k \in 1..row.n : <<p, k>> \in bucket
  /\ sent => report = 1..row.n

\* README: with gis_only "S3 keeps photos only for the GIS".  A public link gets
\* into a comment only while S3 gives links to TechPortal, and then for each photo.
LinksArePublic ==
  [][row'.links # row.links => storage = "public" /\ row'.links = 1..row'.n]_photoVars
=============================================================================
