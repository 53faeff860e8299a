---------------------------- MODULE ExternalFiles ----------------------------
(***************************************************************************)
(* Files of other sites that the console fetches, keeps and serves to      *)
(* hosts: the list of allowed names (built in and configured), the cache   *)
(* on disk with its time to live, the copies an administrator uploads, the *)
(* scripts that ship with the server, and the handlers that meet there.    *)
(*                                                                         *)
(* Names are matched without regard to case, and keys that differ only in  *)
(* case share one file.  What a site answers is chosen at random; the      *)
(* allow lists of hosts and networks can only turn an answer into a        *)
(* refusal, so refusal is one of the answers.                              *)
(***************************************************************************)
EXTENDS Integers, Sequences, FiniteSets, FiniteSetsExt, Functions

CONSTANTS
  KeyOrder,       \* keys in the order of their bytes
  Fold,           \* the name a key has without regard to case
  LinuxNames,     \* names with "linux" in them
  Builtins,       \* keys built in, each with its value
  Urls,
  SaveItems,      \* items an administrator saves: key and value
  Askers,         \* handlers and rounds of the prewarmer under way
  MaxAsks,        \* bound: requests and rounds
  MaxFileEvents   \* bound: saves, uploads, removals and files that grow old

ExtKeys == Range(KeyOrder)
Names == { Fold[k] : k \in ExtKeys }
Values == [url : Urls, script : BOOLEAN]
NotListed == [url |-> "", script |-> FALSE]

ASSUME ExternalFilesAssumption ==
  /\ KeyOrder \in Seq(ExtKeys) /\ DOMAIN Fold = ExtKeys /\ LinuxNames \subseteq Names
  /\ Urls \cap {"", "none", "server", "upload"} = {} /\ "" \notin Askers
  /\ DOMAIN Builtins \subseteq ExtKeys /\ \A k \in DOMAIN Builtins : Builtins[k] \in Values
  /\ SaveItems \subseteq [key : ExtKeys, value : Values]

\* A file in the cache or among the uploads: its name and whether it ends in .exe.
Files == Names \X BOOLEAN
NoContent == [kind |-> "none", by |-> "none", fresh |-> FALSE]
Idle == [op |-> "none", pc |-> "idle", entry |-> NotListed, file |-> << "", FALSE >>,
         local |-> FALSE, todo |-> {}, got |-> NoContent, conf |-> << >>, late |-> FALSE]

VARIABLES
  xConf,      \* server.external_binaries: the configured value of each key
  xCache,     \* .external-cache
  xLocal,     \* .external-local
  xLock,      \* the holder of each file's lock, "" if it is free
  xAsk,       \* what each asker is at
  xFetched,   \* history: downloads of a file since it was removed or grew old
  xDowngraded,\* history: the server's own script replaced a file of the site
  xCount      \* bounds

xVars == << xConf, xCache, xLocal, xLock, xAsk, xFetched, xDowngraded, xCount >>

ExternalInit ==
  /\ xConf = [k \in ExtKeys |-> NotListed]
  /\ xCache = [f \in Files |-> NoContent] /\ xLocal = [f \in Files |-> NoContent]
  /\ xLock = [f \in Files |-> ""] /\ xAsk = [p \in Askers |-> Idle]
  /\ xFetched = [f \in Files |-> 0] /\ xDowngraded = FALSE
  /\ xCount = [asks |-> 0, events |-> 0]
-----------------------------------------------------------------------------
(* The list *)

hasNameFold(c, n) == \E k \in ExtKeys : Fold[k] = n /\ c[k] # NotListed

\* What is built in is there unless a key of the same name is configured.
Effective(c) ==
  [k \in ExtKeys |->
     IF k \in DOMAIN Builtins /\ ~hasNameFold(c, Fold[k]) THEN Builtins[k] ELSE c[k]]

builtinValue(n) == { Builtins[k] : k \in { b \in DOMAIN Builtins : Fold[b] = n } }

StripBuiltinDefaults(c) ==
  [k \in ExtKeys |-> IF c[k] \in builtinValue(Fold[k]) THEN NotListed ELSE c[k]]

\* The positions of the listed keys, and those of a name, the first of which counts.
Parse(c) == { i \in DOMAIN KeyOrder : c[KeyOrder[i]] # NotListed }
Lookup(c, n) == { i \in Parse(c) : Fold[KeyOrder[i]] = n }

FileName(n, v) == << n, ~v.script /\ n \notin LinuxNames >>

\* The address of a built-in script, unchanged.
isDefaultEntry(n, v) == v.script /\ \E b \in builtinValue(n) : b.url = v.url

\* A binary starts like one; a script only must not be a page.
validateExternalContent(v, kind) == IF v.script THEN kind # "page" ELSE kind = "bin"
-----------------------------------------------------------------------------
(* One file at a time *)

Exists(f) == xCache[f] # NoContent
Now(p, r) == xAsk' = [xAsk EXCEPT ![p] = r]
Cached(f, c) == xCache' = [xCache EXCEPT ![f] = c]
Removed(f) == Cached(f, NoContent) /\ xFetched' = [xFetched EXCEPT ![f] = 0]
FreeLock(f) == xLock' = [xLock EXCEPT ![f] = ""]

\* Which entry and file the next step of p is about, and where it goes.
At(p, pc) == [xAsk[p] EXCEPT !.pc = pc]
Entry(n, v) == [Idle EXCEPT !.entry = v, !.file = FileName(n, v)]

Begins(p) ==
  /\ xAsk[p].pc \in {"idle", "served"} /\ xCount.asks < MaxAsks
  /\ xCount' = [xCount EXCEPT !.asks = @ + 1]

Event == xCount.events < MaxFileEvents /\ xCount' = [xCount EXCEPT !.events = @ + 1]

\* A list without the name answers 404.
Listed(n, v) ==
  LET c == Effective(xConf) IN Lookup(c, n) # {} /\ v = c[KeyOrder[Min(Lookup(c, n))]]

\* The upload is preferred; then a cached file that is not too old; then the
\* site.  A request for local files only takes any cached file, and has the
\* server's own script put there if there is none.
ExternalBinaryDownload(p, n, v, localOnly) ==
  /\ Begins(p) /\ Listed(n, v)
  /\ LET e == [Entry(n, v) EXCEPT !.op = "get"]
         f == e.file IN
     \/ /\ xLocal[f] # NoContent
        /\ Now(p, [e EXCEPT !.pc = "open", !.local = TRUE])
     \/ /\ xLocal[f] = NoContent
        /\ IF localOnly
           THEN Exists(f) \/ isDefaultEntry(n, v)
           ELSE TRUE
        /\ Now(p, [e EXCEPT !.pc = IF localOnly THEN IF Exists(f) THEN "open" ELSE "seed"
                                   ELSE IF xCache[f].fresh THEN "open" ELSE "lock"])
  /\ UNCHANGED << xConf, xCache, xLocal, xLock, xFetched, xDowngraded >>

RefreshExternalBinary(p, n, v) ==
  /\ Begins(p) /\ Listed(n, v)
  /\ Now(p, [Entry(n, v) EXCEPT !.op = "refresh", !.pc = "lock"])
  /\ UNCHANGED << xConf, xCache, xLocal, xLock, xFetched, xDowngraded >>

\* Refresh of all and the prewarmer go through the list as it was when they
\* began, one file after the other.
TakesList(p, op) ==
  /\ Begins(p)
  /\ Now(p, [Idle EXCEPT !.op = op, !.pc = "next", !.conf = Effective(xConf),
                         !.todo = Parse(Effective(xConf))])
  /\ UNCHANGED << xConf, xCache, xLocal, xLock, xFetched, xDowngraded >>

NextOfList(p) ==
  /\ xAsk[p].pc = "next"
  /\ LET r == xAsk[p] IN
     IF r.todo = {} THEN Now(p, Idle)
     ELSE LET k == KeyOrder[Min(r.todo)]
              f == FileName(Fold[k], r.conf[k]) IN
          Now(p, [r EXCEPT !.todo = @ \ {Min(@)}, !.entry = r.conf[k], !.file = f,
                  !.pc = IF r.op = "prewarm" /\ (xLocal[f] # NoContent \/ xCache[f].fresh)
                         THEN "next" ELSE "lock"])
  /\ UNCHANGED << xConf, xCache, xLocal, xLock, xFetched, xDowngraded, xCount >>

Refreshing(p) == xAsk[p].op \in {"refresh", "all"}
Onward(p) == IF xAsk[p].op = "get" THEN At(p, "open")
             ELSE IF xAsk[p].op = "refresh" THEN Idle ELSE At(p, "next")

\* Does not look again.
LockFileMutant(p) ==
  LET f == xAsk[p].file IN
  /\ xAsk[p].pc = "lock" /\ xLock[f] = ""
  /\ IF Refreshing(p) THEN Removed(f) ELSE UNCHANGED << xCache, xFetched >>
  /\ xLock' = [xLock EXCEPT ![f] = p] /\ Now(p, At(p, "fetch"))
  /\ UNCHANGED << xConf, xLocal, xDowngraded, xCount >>

\* With the lock a download looks again, for another may have fetched the
\* file; a refresh removes it.
LockFile(p) ==
  LET f == xAsk[p].file IN
  /\ xAsk[p].pc = "lock" /\ xLock[f] = ""
  /\ \/ /\ Refreshing(p) /\ Removed(f)
        /\ xLock' = [xLock EXCEPT ![f] = p] /\ Now(p, At(p, "fetch"))
     \/ /\ ~Refreshing(p) /\ ~xCache[f].fresh
        /\ xLock' = [xLock EXCEPT ![f] = p] /\ Now(p, At(p, "fetch"))
        /\ UNCHANGED << xCache, xFetched >>
     \/ /\ ~Refreshing(p) /\ xCache[f].fresh
        /\ Now(p, Onward(p)) /\ UNCHANGED << xCache, xFetched, xLock >>
  /\ UNCHANGED << xConf, xLocal, xDowngraded, xCount >>

\* fetchExternalBinary: through the proxy and then without it, into a file of
\* its own that is checked and renamed.
Fetch(p) ==
  LET r == xAsk[p] IN
  /\ r.pc = "fetch" /\ FreeLock(r.file)
  /\ \/ \E kind \in {"bin", "script", "page"} :
          /\ validateExternalContent(r.entry, kind)
          /\ Cached(r.file, [kind |-> kind, by |-> r.entry.url, fresh |-> TRUE])
          /\ xFetched' = [xFetched EXCEPT ![r.file] = @ + 1]
          /\ Now(p, Onward(p))
     \/ /\ Now(p, IF r.op = "get" THEN At(p, "failed") ELSE Onward(p))
        /\ UNCHANGED << xCache, xFetched >>
  /\ UNCHANGED << xConf, xLocal, xDowngraded, xCount >>

\* An old file or the server's own script is better than none.
FallBack(p) ==
  LET r == xAsk[p] IN
  /\ r.pc = "failed"
  /\ Now(p, IF Exists(r.file) THEN At(p, "open")
            ELSE IF isDefaultEntry(r.file[1], r.entry) THEN At(p, "seed") ELSE Idle)
  /\ UNCHANGED << xConf, xCache, xLocal, xLock, xFetched, xDowngraded, xCount >>

\* Under the lock, and only if there is still no file; it counts as old.
seedEmbeddedScript(p) ==
  LET f == xAsk[p].file IN
  /\ xAsk[p].pc = "seed" /\ xLock[f] = ""
  /\ IF Exists(f) THEN UNCHANGED xCache
     ELSE Cached(f, [kind |-> "script", by |-> "server", fresh |-> FALSE])
  /\ xDowngraded' = (xDowngraded \/ (xCache'[f].by = "server" /\ xCache[f].by \in Urls))
  /\ Now(p, At(p, "open"))
  /\ UNCHANGED << xConf, xLocal, xLock, xFetched, xCount >>

\* The file may be gone since it was looked for: 404.
Open(p) ==
  LET c == IF xAsk[p].local THEN xLocal[xAsk[p].file] ELSE xCache[xAsk[p].file] IN
  /\ xAsk[p].pc = "open"
  /\ Now(p, IF c = NoContent THEN Idle ELSE [At(p, "served") EXCEPT !.got = c])
  /\ UNCHANGED << xConf, xCache, xLocal, xLock, xFetched, xDowngraded, xCount >>
-----------------------------------------------------------------------------
(* What else touches the files *)

\* A test that shall not use the cache removes the file, without the lock.
TestExternalBinary(n, v) ==
  /\ Event /\ Exists(FileName(n, v)) /\ Listed(n, v) /\ Removed(FileName(n, v))
  /\ UNCHANGED << xConf, xLocal, xLock, xAsk, xDowngraded >>

\* The time to live is over.
Age(f) ==
  /\ xCache[f].fresh /\ Cached(f, [xCache[f] EXCEPT !.fresh = FALSE])
  /\ xFetched' = [xFetched EXCEPT ![f] = 0]
  /\ Event
  /\ UNCHANGED << xConf, xLocal, xLock, xAsk, xDowngraded >>

\* The old upload goes before the new one, already checked, is renamed.
UploadExternalBinary(p, n, v, kind) ==
  /\ xAsk[p].pc \in {"idle", "served"} /\ Event
  /\ Listed(n, v) /\ validateExternalContent(v, kind)
  /\ Now(p, [Entry(n, v) EXCEPT !.op = "put", !.pc = "put",
                                !.got = [kind |-> kind, by |-> "upload", fresh |-> TRUE]])
  /\ xLocal' = [xLocal EXCEPT ![FileName(n, v)] = NoContent]
  /\ UNCHANGED << xConf, xCache, xLock, xFetched, xDowngraded >>

UploadRenamed(p) ==
  /\ xAsk[p].pc = "put"
  /\ xLocal' = [xLocal EXCEPT ![xAsk[p].file] = xAsk[p].got] /\ Now(p, Idle)
  /\ UNCHANGED << xConf, xCache, xLock, xFetched, xDowngraded, xCount >>

DeleteExternalBinaryUpload(n, v) ==
  /\ Event /\ xLocal[FileName(n, v)] # NoContent /\ Listed(n, v)
  /\ xLocal' = [xLocal EXCEPT ![FileName(n, v)] = NoContent]
  /\ UNCHANGED << xConf, xCache, xLock, xAsk, xFetched, xDowngraded >>
-----------------------------------------------------------------------------
(* Saves *)

\* A save of one page starts from the list in effect ...
SaveReads(p, item, delete) ==
  /\ xAsk[p].pc \in {"idle", "served"}
  /\ Event
  /\ delete => builtinValue(Fold[item.key]) = {}
  /\ LET base == Effective(xConf) IN
     Now(p, [Idle EXCEPT !.op = "save", !.pc = "apply", !.entry = item.value,
             !.file = << Fold[item.key], delete >>,
             !.conf = StripBuiltinDefaults(
               [k \in ExtKeys |->
                  IF delete /\ Fold[k] = Fold[item.key] THEN NotListed
                  ELSE IF ~delete /\ k = item.key THEN item.value ELSE base[k]])])
  /\ UNCHANGED << xConf, xCache, xLocal, xLock, xFetched, xDowngraded >>

\* ... and replaces the whole list.  History: the list before, and whether
\* another save came between the two steps.
SaveApplies(p) ==
  /\ xAsk[p].pc = "apply"
  /\ xConf' = xAsk[p].conf
  /\ xAsk' = [q \in Askers |->
       IF q = p THEN [xAsk[p] EXCEPT !.pc = "saved", !.conf = Effective(xConf)]
       ELSE IF xAsk[q].pc \in {"apply", "saved"} THEN [xAsk[q] EXCEPT !.late = TRUE] ELSE xAsk[q]]
  /\ UNCHANGED << xCache, xLocal, xLock, xFetched, xDowngraded, xCount >>

\* Answered, or refused before: an address on a host that is not allowed.
SaveAnswered(p) ==
  /\ xAsk[p].pc \in {"apply", "saved"} /\ Now(p, Idle)
  /\ UNCHANGED << xConf, xCache, xLocal, xLock, xFetched, xDowngraded, xCount >>

ExternalNext ==
  \/ \E p \in Askers :
       \/ \E k \in ExtKeys : \E v \in {Effective(xConf)[k]} \ {NotListed} :
            \/ \E localOnly \in BOOLEAN : ExternalBinaryDownload(p, Fold[k], v, localOnly)
            \/ RefreshExternalBinary(p, Fold[k], v)
            \/ \E kind \in {"bin", "script"} : UploadExternalBinary(p, Fold[k], v, kind)
       \/ \E op \in {"all", "prewarm"} : TakesList(p, op)
       \/ NextOfList(p) \/ LockFile(p) \/ Fetch(p) \/ FallBack(p) \/ seedEmbeddedScript(p)
       \/ Open(p) \/ UploadRenamed(p)
       \/ \E item \in SaveItems, delete \in BOOLEAN : SaveReads(p, item, delete)
       \/ SaveApplies(p) \/ SaveAnswered(p)
  \/ \E k \in ExtKeys : \E v \in {Effective(xConf)[k]} \ {NotListed} :
       TestExternalBinary(Fold[k], v) \/ DeleteExternalBinaryUpload(Fold[k], v)
  \/ \E f \in Files : Age(f)
-----------------------------------------------------------------------------
(* Properties *)

ExternalTypeOK ==
  /\ xConf \in [ExtKeys -> Values \cup {NotListed}]
  /\ xLock \in [Files -> Askers \cup {""}]

\* No two fetch one file at a time, not even under keys that differ in case.
OneFetchPerFile ==
  \A p, q \in Askers :
    xAsk[p].pc = "fetch" /\ xAsk[q].pc = "fetch" /\ xAsk[p].file = xAsk[q].file => p = q

\* Whoever waits for the lock does not fetch again what was fetched meanwhile:
\* one download and one refresh at most while a file is there and not old.
NoNeedlessFetch == \A f \in Files : xFetched[f] <= 1

\* What is served is of the kind of its entry; a name with linux in it only
\* is no page, since scripts and binaries of that name share a file.
ServedOfItsKind ==
  \A p \in Askers : xAsk[p].pc = "served" =>
    IF xAsk[p].file[1] \in LinuxNames THEN xAsk[p].got.kind # "page"
    ELSE validateExternalContent(xAsk[p].entry, xAsk[p].got.kind)

\* A built-in name is always served from somewhere, and a save that met no
\* other keeps every name it does not list.
SavesKeepOthers ==
  /\ \A k \in DOMAIN Builtins : Lookup(Effective(xConf), Fold[k]) # {}
  /\ \A p \in Askers : xAsk[p].pc = "saved" /\ ~xAsk[p].late =>
       \A k \in ExtKeys : Fold[k] # xAsk[p].file[1] => Effective(xConf)[k] = xAsk[p].conf[k]

\* Files that are fetched for others: the list, the cache and its lock, the
\* uploads (ExternalBinaryDownload, downloadWithLock, seedEmbeddedScript, Save).
ExternalInv ==
  /\ ExternalTypeOK /\ OneFetchPerFile /\ NoNeedlessFetch /\ ServedOfItsKind
  /\ ~xDowngraded /\ SavesKeepOthers

\* Deliberately not checked, the code does not keep them: a rewritten address
\* is not answered with the server's own script; a file comes from the address
\* that is listed; a saved value is the one in effect for its name.
OwnScriptOnlyForDefault ==
  \A p \in Askers : xAsk[p].pc = "served" /\ xAsk[p].got.by = "server" =>
    isDefaultEntry(xAsk[p].file[1], xAsk[p].entry)
FileOfItsAddress ==
  \A p \in Askers : xAsk[p].pc = "served" /\ xAsk[p].got.by \in Urls =>
    xAsk[p].got.by = xAsk[p].entry.url
=============================================================================
