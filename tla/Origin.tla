------------------------------- MODULE Origin -------------------------------
(***************************************************************************)
(* The origin server of origin/ with a site: start-up, which resizes every *)
(* image for every variant in goroutines behind a semaphore (site.go,      *)
(* loadSite and buildAssets), the routes of the three profiles             *)
(* (handlers.go), of which only the derived images change anything, and    *)
(* the request rate meter all requests pass through (main.go, HttpRps).    *)
(*                                                                         *)
(* An image is the file it comes from and its width.  The files, the       *)
(* configuration and what resizing meets are inputs.                       *)
(***************************************************************************)
EXTENDS HttpRps, Sequences

CONSTANTS Images,    \* images.json: a sequence of [file, slug]
          Width,     \* Width[f]: how wide the original of f is
          Configs,   \* site.json: [profile, variants, allowedWidths, perPage]
          Damages,   \* what may be wrong with the files: [missing, broken]
          NumCPU,    \* runtime.NumCPU()
          Paths      \* what clients ask for

Files == {Images[i].file : i \in DOMAIN Images}

(* "" is no category.  A derived path with a w= that is not a number is    *)
(* one with a width that no site allows.                                   *)
NoError == "no error"
ASSUME ImagesAssumption ==
  /\ Images \in Seq([file : STRING, slug : STRING]) \ {<<>>}
  /\ Width \in [Files -> Nat \ {0}]
  /\ NoError \notin Files
ASSUME ConfigsAssumption ==
  \A c \in Configs :
    /\ c.profile \in {"gallery", "catalog", "dynamic"}
    /\ c.allowedWidths \subseteq Nat \ {0}
    /\ c.perPage \in Int
    /\ c.variants \in Seq([name : STRING, width : Int])
    /\ \A i, j \in DOMAIN c.variants : c.variants[i].name = c.variants[j].name => i = j
    /\ \A i \in DOMAIN c.variants : c.variants[i].name = "full" <=> c.variants[i].width = 0
ASSUME DamagesAssumption ==
  \A d \in Damages : d.missing \subseteq Files /\ d.broken \subseteq Files
ASSUME NumCPUAssumption == NumCPU \in Nat \ {0}

VARIABLES
  cfg,       \* s.cfg
  missing,   \* files that images.json lists and that are not there
  broken,    \* files that are no PNG images
  main,      \* the main goroutine
  job,       \* job[n]: where goroutine n of buildAssets is
  sem,       \* elements in the semaphore channel
  wg,        \* the WaitGroup's counter
  firstEr,   \* the file of the first error
  assets,    \* s.assets
  derived,   \* s.derived
  path,      \* path[r]: what request r asks for
  handler,   \* handler[r]: where its handler is
  reply      \* reply[r]: what it has been answered

siteVars == <<cfg, missing, broken>>
buildVars == <<main, job, sem, wg, firstEr, assets>>
requestVars == <<path, handler, reply>>
vars == <<siteVars, buildVars, derived, requestVars, rpsVars>>

Serving == main = "serving"
Nothing == [kind |-> "nothing"]
NoReply == [status |-> 0, body |-> {}]

(* f with key k bound to v.                                                *)
With(f, k, v) == [x \in DOMAIN f \cup {k} |-> IF x = k THEN v ELSE f[x]]

(* A site without variants has the originals.                              *)
Variants ==
  IF cfg.variants = <<>> THEN << [name |-> "full", width |-> 0] >> ELSE cfg.variants

(* The goroutines, one for each turn of the two loops that is not skipped. *)
Jobs ==
  {n \in (DOMAIN Variants) \X (DOMAIN Images) : Variants[n[1]].width # 0}
VariantOf(n) == Variants[n[1]]
FileOf(n) == Images[n[2]].file

Init ==
  /\ cfg \in Configs
  /\ \E d \in Damages : missing = d.missing /\ broken = d.broken
  /\ main = "reading"
  /\ job = [n \in Jobs |-> "not started"]
  /\ sem = 0
  /\ wg = 0
  /\ firstEr = NoError
  /\ assets = [k \in {} |-> {}]
  /\ derived = [k \in {} |-> {}]
  /\ path = [r \in Requests |-> Nothing]
  /\ handler = [r \in Requests |-> "idle"]
  /\ reply = [r \in Requests |-> NoReply]
  /\ RpsInit
-----------------------------------------------------------------------------
(* loadSite *)

Original(f) == [file |-> f, width |-> Width[f]]

(* resizePNG: an image that is narrow enough is returned as it is.         *)
Resized(image, w) == IF image.width <= w THEN image ELSE [image EXCEPT !.width = w]

ReadOriginals ==
  /\ main = "reading"
  /\ IF missing # {}
       THEN main' = "failed" /\ UNCHANGED assets
       ELSE /\ main' = "building"
            /\ assets' = [k \in {"full"} \X Files |-> Original(k[2])]
  /\ UNCHANGED <<siteVars, job, sem, wg, firstEr, derived, requestVars, rpsVars>>

(* Operators named X_Slip or X_... are plausible mistakes in X, there to   *)
(* show which property tells them from X; no behaviour contains them.      *)

(* The channel has a place too many.                                       *)
TokenFree_Slip == sem <= NumCPU

TokenFree == sem < NumCPU

Before(m, n) == m[1] < n[1] \/ (m[1] = n[1] /\ m[2] < n[2])

(* wg.Add(1), the send to the semaphore, which may wait, and go.           *)
Launch ==
  /\ main = "building"
  /\ TokenFree
  /\ \E n \in Jobs :
       /\ job[n] = "not started"
       /\ \A m \in Jobs : Before(m, n) => job[m] # "not started"
       /\ job' = [job EXCEPT ![n] = "resizing"]
  /\ wg' = wg + 1
  /\ sem' = sem + 1
  /\ UNCHANGED <<siteVars, main, firstEr, assets, derived, requestVars, rpsVars>>

(* The last error, or none: each success clears it.                        *)
ErrorAfter_Slip(f) == IF f \in broken THEN f ELSE NoError

ErrorAfter(f) == IF f \in broken /\ firstEr = NoError THEN f ELSE firstEr

(* The goroutine has resized its image and holds the mutex.                *)
Register(n) ==
  /\ job[n] = "resizing"
  /\ LET f == FileOf(n)
         v == VariantOf(n)
     IN  /\ firstEr' = ErrorAfter(f)
         /\ assets' = IF f \in broken THEN assets
                      ELSE With(assets, <<v.name, f>>, Resized(Original(f), v.width))
  /\ job' = [job EXCEPT ![n] = "registered"]
  /\ UNCHANGED <<siteVars, main, sem, wg, derived, requestVars, rpsVars>>

(* An error leaves the token in the channel.                               *)
Released_Slip(n) == IF FileOf(n) \in broken THEN sem ELSE sem - 1

Released(n) == sem - 1

(* The deferred calls, the last one first.                                 *)
Release(n) ==
  /\ job[n] = "registered"
  /\ sem' = Released(n)
  /\ job' = [job EXCEPT ![n] = "released"]
  /\ UNCHANGED <<siteVars, main, wg, firstEr, assets, derived, requestVars, rpsVars>>

Done(n) ==
  /\ job[n] = "released"
  /\ wg' = wg - 1
  /\ job' = [job EXCEPT ![n] = "done"]
  /\ UNCHANGED <<siteVars, main, sem, firstEr, assets, derived, requestVars, rpsVars>>

(* The semaphore is taken for the end of the work.                         *)
AllDone_Slip == sem <= 1

AllDone == wg = 0

(* wg.Wait returns; an error is fatal, else the server starts.             *)
Built ==
  /\ main = "building"
  /\ \A n \in Jobs : job[n] # "not started"
  /\ AllDone
  /\ main' = IF firstEr = NoError THEN "serving" ELSE "failed"
  /\ UNCHANGED <<siteVars, job, sem, wg, firstEr, assets, derived, requestVars, rpsVars>>

Build == ReadOriginals \/ Launch \/ Built
Job(n) == Register(n) \/ Release(n) \/ Done(n)
-----------------------------------------------------------------------------
(* Handlers *)

Found(body) == [status |-> 200, body |-> body]
NotFound == [status |-> 404, body |-> {}]
BadRequest == [status |-> 400, body |-> {}]

variantBytes(variant, file) ==
  IF <<variant, file>> \in DOMAIN assets THEN Found(assets[<<variant, file>>]) ELSE NotFound

(* A last page that is not full is forgotten.                              *)
pageCount_Slip == IF cfg.perPage > 0 THEN Len(Images) \div cfg.perPage ELSE 1

pageCount ==
  IF cfg.perPage > 0 THEN (Len(Images) + cfg.perPage - 1) \div cfg.perPage ELSE 1

(* The slices of s.images that the pages show, as sets of indices.         *)
imagesForPage(page) ==
  IF cfg.perPage <= 0 THEN DOMAIN Images
  ELSE {i \in DOMAIN Images : (page - 1) * cfg.perPage < i /\ i <= page * cfg.perPage}

imagesForCategory(slug) == {i \in DOMAIN Images : Images[i].slug = slug}
categories == {Images[i].slug : i \in DOMAIN Images} \ {""}

NonEmpty(S) == IF S = {} THEN NotFound ELSE Found(S)

(* The profile has a route for the path.  A gallery does not look at w=.   *)
Routed(p) ==
  \/ cfg.profile = "catalog" /\ p.kind \in {"variant", "page", "category"}
  \/ cfg.profile = "gallery" /\ p.kind \in {"full", "derived"}
  \/ cfg.profile = "dynamic" /\ p.kind \in {"full", "derived"}

(* The handlers that change nothing.                                       *)
Get(p) ==
  IF ~Routed(p) THEN NotFound
  ELSE CASE p.kind = "variant" -> variantBytes(p.variant, p.file)
         [] p.kind = "page" ->
              IF p.page \in 1..pageCount THEN Found(imagesForPage(p.page)) ELSE NotFound
         [] p.kind = "category" -> NonEmpty(imagesForCategory(p.slug))
         [] p.kind \in {"full", "derived"} -> variantBytes("full", p.file)

Derives(p) == cfg.profile = "dynamic" /\ p.kind = "derived"

(* Any width is resized to.                                                *)
widthAllowed_Slip(w) == w \in Nat

widthAllowed(w) == w \in cfg.allowedWidths

(* The key leaves the width out.                                           *)
Key_Slip(p) == <<CHOOSE w \in cfg.allowedWidths : TRUE, p.file>>

Key(p) == <<p.width, p.file>>

(* derivedBytes, first half: the map is read under the read lock.          *)
LooksUp(p) == Derives(p) /\ widthAllowed(p.width)
Cached(p) == Key(p) \in DOMAIN derived
NoOriginal(p) == variantBytes("full", p.file) = NotFound

(* All requests go through the rate meter to their handlers.               *)
Request(r, p) ==
  /\ Serving
  /\ Count(r)
  /\ path' = [path EXCEPT ![r] = p]
  /\ handler' = [handler EXCEPT ![r] = "called"]
  /\ UNCHANGED <<siteVars, buildVars, derived, reply>>

Ends(r, answer) ==
  /\ reply' = [reply EXCEPT ![r] = answer]
  /\ handler' = [handler EXCEPT ![r] = "done"]

Answer(r) ==
  /\ handler[r] = "called"
  /\ LET p == path[r] IN
       \/ ~Derives(p) /\ Ends(r, Get(p))
       \/ Derives(p) /\ ~widthAllowed(p.width) /\ Ends(r, BadRequest)
       \/ LooksUp(p) /\ Cached(p) /\ Ends(r, Found(derived[Key(p)]))
       \/ LooksUp(p) /\ ~Cached(p) /\ NoOriginal(p) /\ Ends(r, NotFound)
  /\ UNCHANGED <<siteVars, buildVars, derived, path, rpsVars>>

Misses(r) ==
  /\ handler[r] = "called"
  /\ LET p == path[r] IN LooksUp(p) /\ ~Cached(p) /\ ~NoOriginal(p)
  /\ handler' = [handler EXCEPT ![r] = "resizing"]
  /\ UNCHANGED <<siteVars, buildVars, derived, path, reply, rpsVars>>

(* derivedBytes, second half: resizing fails, or its result is stored      *)
(* under the lock, over whatever another request has stored meanwhile.     *)
Resize(r) ==
  /\ handler[r] = "resizing"
  /\ LET p == path[r]
         image == Resized(assets[<<"full", p.file>>], p.width)
     IN  IF p.file \in broken
           THEN Ends(r, NotFound) /\ UNCHANGED derived
           ELSE Ends(r, Found(image)) /\ derived' = With(derived, Key(p), image)
  /\ UNCHANGED <<siteVars, buildVars, path, rpsVars>>

Handle(r) == Answer(r) \/ Misses(r) \/ Resize(r)

(* The goroutine of NewMiddleware is started when the site is loaded.      *)
Tick ==
  /\ Serving
  /\ RpsTick
  /\ UNCHANGED <<siteVars, buildVars, derived, requestVars>>
-----------------------------------------------------------------------------
Next ==
  \/ Build
  \/ \E n \in Jobs : Job(n)
  \/ \E r \in Requests : Handle(r) \/ \E p \in Paths : Request(r, p)
  \/ Tick

Spec == Init /\ [][Next]_vars

(* Every goroutine is scheduled, and the ticker fires; no client has to    *)
(* come.                                                                   *)
FairSpec == /\ Spec
            /\ WF_vars(Build)
            /\ WF_vars(\E n \in Jobs : Job(n))
            /\ \A r \in Requests : WF_vars(Handle(r))
            /\ WF_vars(Tick)
-----------------------------------------------------------------------------
TypeOK ==
  /\ cfg \in Configs
  /\ main \in {"reading", "building", "serving", "failed"}
  /\ job \in [Jobs -> {"not started", "resizing", "registered", "released", "done"}]
  /\ sem \in 0..NumCPU
  /\ wg \in 0..Cardinality(Jobs)
  /\ firstEr \in Files \cup {NoError}
  /\ handler \in [Requests -> {"idle", "called", "resizing", "done"}]
  /\ path \in [Requests -> Paths \cup {Nothing}]
  /\ RpsTypeOK

(* The server serves exactly if every listed file is there and everything  *)
(* that had to be resized could be, whichever goroutine came first; then   *)
(* each variant of each image is in place, made from the original.         *)
AtWidth(f, w) == IF w = 0 THEN Original(f) ELSE Resized(Original(f), w)
Buildable == missing = {} /\ (Jobs # {} => broken = {})

StartIsComplete ==
  /\ main = "failed" => ~Buildable
  /\ Serving =>
       /\ Buildable
       /\ assets = [k \in {Variants[i].name : i \in DOMAIN Variants} \X Files \cup {"full"} \X Files |->
                      AtWidth(k[2], IF k[1] = "full" THEN 0
                                    ELSE (CHOOSE v \in {Variants[i] : i \in DOMAIN Variants} :
                                            v.name = k[1]).width)]

(* Requests for derived images, which may miss together, resize together   *)
(* and overwrite each other's copies, are all answered as if each were     *)
(* alone; and the copies, which nothing ever removes, are only ever those  *)
(* of the site's images at the widths it allows.                           *)
DerivedAnswer(p) ==
  IF ~widthAllowed(p.width) THEN BadRequest
  ELSE IF p.file \in Files \ broken THEN Found(Resized(Original(p.file), p.width))
  ELSE NotFound

DerivedTruthful ==
  /\ \A r \in Requests : handler[r] = "done" /\ Derives(path[r]) =>
       reply[r] = DerivedAnswer(path[r])
  /\ \A k \in DOMAIN derived :
       /\ k \in cfg.allowedWidths \X (Files \ broken)
       /\ derived[k] = Resized(Original(k[2]), k[1])

(* The URLs in the page's cache meter (buildMeterURLs).                    *)
MeterURLs ==
  IF cfg.profile = "catalog"
    THEN {[kind |-> "variant", variant |-> Variants[i].name, file |-> f] :
            i \in DOMAIN Variants, f \in Files}
    ELSE {[kind |-> "full", file |-> f] : f \in Files}
         \cup {[kind |-> "derived", file |-> f, width |-> w] :
                 w \in IF cfg.profile = "dynamic" THEN cfg.allowedWidths ELSE {}, f \in Files}

(* What a page of the site links to is there: the URLs of its cache meter, *)
(* its categories, and its pages, each image being on exactly one of them. *)
AdvertisedIsServed ==
  Serving =>
    /\ \A u \in MeterURLs :
         IF Derives(u) THEN u.file \notin broken => DerivedAnswer(u).status = 200
                       ELSE Get(u).status = 200
    /\ cfg.profile = "catalog" =>
         /\ \A s \in categories : Get([kind |-> "category", slug |-> s]).status = 200
         /\ \A p \in 1..pageCount : Get([kind |-> "page", page |-> p]).body # {}
         /\ \A i \in DOMAIN Images :
              \E p \in 1..pageCount :
                {q \in -1..pageCount + 1 : i \in Get([kind |-> "page", page |-> q]).body} = {p}

(* Start-up ends, the semaphore being full or images failing or not.       *)
StartEnds == <>(main \in {"serving", "failed"})
=============================================================================
