----------------------------- MODULE ShareLinks -----------------------------
(***************************************************************************)
(* A share link of media_share.py, from its creation to its revocation. A  *)
(* file is sent as it is; a folder is zipped by a thread, into a temporary *)
(* file that the first to fetch it removes. Requests, zip threads and the  *)
(* sweep meet in _zip_jobs, whose lock they hold for one step at a time.   *)
(***************************************************************************)
EXTENDS Naturals

CONSTANTS
  Clients,   \* the requests that may be under way at once
  Zips,      \* the zip threads, each with the temporary file it writes
  Limits,    \* the values of max_downloads (0: unlimited)
  MaxCount   \* bounds the downloads that are counted

\* 0 stands for no file.
LinksAssumption == 0 \notin Zips /\ MaxCount \in Nat /\ Limits \subseteq Nat

VARIABLES
  link,      \* the row of share_links
  job,       \* _zip_jobs[token]: a status, and the file of a ready job
  client,    \* client[c]: where a visitor is, and the file its response holds
  zip,       \* zip[z]: where a zip thread is
  temps      \* the temporary files on the disk

links == <<link, job, client, zip, temps>>

NoJob == [status |-> "none", tmp |-> 0]
Here(where, tmp) == [pc |-> where, tmp |-> tmp]

TypeOK ==
  /\ link \in [limit : Limits, count : 0 .. MaxCount, folder : BOOLEAN,
               live : BOOLEAN, expired : BOOLEAN]
  /\ job \in [status : {"none", "zipping", "ready", "error"}, tmp : Zips \union {0}]
  /\ client \in [Clients -> [pc : {"away", "valid", "waits", "sends"}, tmp : Zips \union {0}]]
  /\ zip \in [Zips -> {"idle", "walk", "write", "over"}]
  /\ temps \in SUBSET Zips
  /\ \A z \in temps : zip[z] \in {"write", "over"}

Init ==
  /\ link \in {[limit |-> m, count |-> 0, folder |-> f, live |-> TRUE, expired |-> FALSE] :
                 m \in Limits, f \in BOOLEAN}
  /\ job = NoJob
  /\ client = [c \in Clients |-> Here("away", 0)]
  /\ zip = [z \in Zips |-> "idle"]
  /\ temps = {}

-----------------------------------------------------------------------------
\* _token_expired, and the conditions of _validate_share_token.
TokenExpired ==
  \/ ~ link.live
  \/ link.expired
  \/ link.limit > 0 /\ link.count >= link.limit

\* _expire_zip_job.
ExpireZipJob ==
  /\ job' = NoJob
  /\ temps' = temps \ {job.tmp}

Goes(c, where) == client' = [client EXCEPT ![c] = Here(where, 0)]

\* share_dl validates the token before it takes the lock.
Validate(c) ==
  /\ client[c].pc = "away" /\ ~ TokenExpired
  /\ Goes(c, "valid")
  /\ UNCHANGED <<link, job, zip, temps>>

SendFile(c) ==
  /\ client[c].pc = "valid" /\ ~ link.folder /\ link.count < MaxCount
  /\ link' = [link EXCEPT !.count = @ + 1]
  /\ Goes(c, "away")
  /\ UNCHANGED <<job, zip, temps>>

\* A folder: the request that finds no job is counted and starts the zip.
StartZip(c) ==
  /\ client[c].pc = "valid" /\ link.folder /\ link.count < MaxCount
  /\ Goes(c, "waits")
  /\ IF job = NoJob
     THEN /\ \E z \in Zips : zip[z] = "idle" /\ zip' = [zip EXCEPT ![z] = "walk"]
          /\ job' = [NoJob EXCEPT !.status = "zipping"]
          /\ link' = [link EXCEPT !.count = @ + 1]
     ELSE UNCHANGED <<link, job, zip>>
  /\ UNCHANGED temps

\* The page, status.json and the file itself begin alike: an expired token
\* ends its job, and without a job the visitor starts over.
Refused(c) ==
  /\ client[c].pc = "waits"
  /\ \/ job = NoJob /\ UNCHANGED <<job, temps>>
     \/ job # NoJob /\ TokenExpired /\ ExpireZipJob
     \/ job.status = "error" /\ UNCHANGED <<job, temps>>
  /\ Goes(c, "away")
  /\ UNCHANGED <<link, zip>>

\* share_dl_file takes the path of the job, and sends the file without the lock.
TakeFile(c) ==
  /\ client[c].pc = "waits" /\ job.status = "ready" /\ ~ TokenExpired
  /\ client' = [client EXCEPT ![c] = Here("sends", job.tmp)]
  /\ UNCHANGED <<link, job, zip, temps>>

(* A mutant of Cleanup: the file goes first, the job with the next request. *)
CleanupFile(c) ==
  /\ client[c].pc = "sends"
  /\ temps' = temps \ {client[c].tmp}
  /\ Goes(c, "away")
  /\ UNCHANGED <<link, job, zip>>

\* _cleanup, after the response: whatever job the token has by now, and the
\* file that was sent.
Cleanup(c) ==
  /\ client[c].pc = "sends"
  /\ job' = NoJob
  /\ temps' = temps \ {client[c].tmp}
  /\ Goes(c, "away")
  /\ UNCHANGED <<link, zip>>

-----------------------------------------------------------------------------
ZipGoes(z, where) == zip' = [zip EXCEPT ![z] = where]

\* _zip_worker: the walk, then the temporary file, unless the job is gone.
Walk(z) ==
  /\ zip[z] = "walk"
  /\ IF job = NoJob
     THEN ZipGoes(z, "over") /\ UNCHANGED temps
     ELSE ZipGoes(z, "write") /\ temps' = temps \union {z}
  /\ UNCHANGED <<link, job, client>>

\* Between two files the thread notices that its job is gone, and returns
\* without removing what it wrote.
Abandon(z) ==
  /\ zip[z] = "write" /\ job = NoJob
  /\ ZipGoes(z, "over")
  /\ UNCHANGED <<link, job, client, temps>>

\* The archive is closed: it belongs to the job the token has by now.
Finish(z) ==
  /\ zip[z] = "write"
  /\ ZipGoes(z, "over")
  /\ IF job = NoJob
     THEN temps' = temps \ {z} /\ UNCHANGED job
     ELSE job' = [status |-> "ready", tmp |-> z] /\ UNCHANGED temps
  /\ UNCHANGED <<link, client>>

\* A failed write: the file goes, and the job is marked; what an earlier
\* thread put there keeps its path.
ZipFails(z) ==
  /\ zip[z] = "write"
  /\ ZipGoes(z, "over")
  /\ temps' = temps \ {z}
  /\ job' = IF job = NoJob THEN NoJob ELSE [job EXCEPT !.status = "error"]
  /\ UNCHANGED <<link, client>>

Sweep ==
  /\ job # NoJob /\ TokenExpired
  /\ ExpireZipJob
  /\ UNCHANGED <<link, client, zip>>

\* The row goes first, the job after it, under the lock.
Revoke ==
  /\ link.live
  /\ link' = [link EXCEPT !.live = FALSE]
  /\ ExpireZipJob
  /\ UNCHANGED <<client, zip>>

TimePasses ==
  /\ ~ link.expired
  /\ link' = [link EXCEPT !.expired = TRUE]
  /\ UNCHANGED <<job, client, zip, temps>>

Next ==
  \/ \E c \in Clients :
       Validate(c) \/ SendFile(c) \/ StartZip(c) \/ Refused(c) \/ TakeFile(c) \/ Cleanup(c)
  \/ \E z \in Zips : Walk(z) \/ Abandon(z) \/ Finish(z) \/ ZipFails(z)
  \/ Sweep \/ Revoke \/ TimePasses

Spec == Init /\ [][Next]_links

-----------------------------------------------------------------------------
\* What a ready job points at is on the disk, although the threads of an
\* expired job, the visitors that fetched it and the sweep are still at work
\* when the next job of the same token starts.
ReadyHasFile == job.status = "ready" => job.tmp \in temps

\* Who may still remove or hand out a file: nobody while a thread writes it;
\* what a job or a response holds, its thread has left.
FilesOwned ==
  /\ \A z \in Zips : zip[z] = "write" => z \in temps
  /\ job.tmp # 0 => zip[job.tmp] = "over"
  /\ \A c \in Clients : client[c].tmp # 0 => zip[client[c].tmp] = "over"

Inv == TypeOK /\ ReadyHasFile /\ FilesOwned
=============================================================================
