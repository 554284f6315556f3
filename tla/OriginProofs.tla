---------------------------- MODULE OriginProofs ----------------------------
(***************************************************************************)
(* Proofs about Origin, for a site of any images, variants and pages, any  *)
(* damage to its files, any number of processors and of requests at a      *)
(* time.                                                                   *)
(*                                                                         *)
(* The server implements the rate meter it is wrapped in, whatever its     *)
(* handlers and its start-up do, so that what is proved of the meter holds *)
(* for the server.                                                         *)
(*                                                                         *)
(* At start-up the goroutines that have not failed have made what is in    *)
(* the map (AssetsAreMade), each one that failed is known to firstEr       *)
(* (ErrorIsKept), and the semaphore and the WaitGroup count those under    *)
(* way (Counts): when the counter is back at zero after the last launch,   *)
(* all of it is done.  What a serving site answers rests on that.          *)
(***************************************************************************)
EXTENDS Origin, HttpRpsProofs

(* Every step of the server is a step of the meter or leaves it alone.     *)
THEOREM MeterRefinement == Spec => RpsSpec
<1>1. Init => RpsInit
  BY DEF Init
<1>2. [Next]_vars => [RpsNext]_rpsVars
  <2> SUFFICES ASSUME [Next]_vars PROVE [RpsNext]_rpsVars
    OBVIOUS
  <2>1. CASE Build
    BY <2>1 DEF Build, ReadOriginals, Launch, Built
  <2>2. ASSUME NEW n \in Jobs, Job(n) PROVE UNCHANGED rpsVars
    BY <2>2 DEF Job, Register, Release, Done
  <2>3. ASSUME NEW r \in Requests, Handle(r) PROVE UNCHANGED rpsVars
    BY <2>3 DEF Handle, Answer, Misses, Resize
  <2>4. ASSUME NEW r \in Requests, NEW p \in Paths, Request(r, p) PROVE RpsNext
    BY <2>4 DEF Request, RpsNext
  <2>5. CASE Tick
    BY <2>5 DEF Tick, RpsNext
  <2>6. CASE UNCHANGED vars
    BY <2>6 DEF vars
  <2> QED BY <2>1, <2>2, <2>3, <2>4, <2>5, <2>6 DEF Next
<1> QED BY <1>1, <1>2, PTL DEF Spec, RpsSpec

(* The rate the origin reports at /rps counts exactly the requests of the  *)
(* last W ticks.                                                           *)
THEOREM OriginRate == Spec => []RateCountsWindow
BY MeterRefinement, WindowIsCounted, PTL
-----------------------------------------------------------------------------
Ended == {n \in Jobs : job[n] \in {"registered", "released", "done"}}
Good == {n \in Ended : FileOf(n) \notin broken}
HoldsToken == {n \in Jobs : job[n] \in {"resizing", "registered"}}
Awaited == {n \in Jobs : job[n] \in {"resizing", "registered", "released"}}
AssetOf(n) == <<VariantOf(n).name, FileOf(n)>>

StartTypes ==
  /\ cfg \in Configs /\ broken \subseteq Files
  /\ main \in {"reading", "building", "serving", "failed"}
  /\ job \in [Jobs -> {"not started", "resizing", "registered", "released", "done"}]
  /\ sem \in 0..NumCPU
  /\ wg \in Nat
  /\ firstEr \in Files \cup {NoError}

(* The semaphore and the WaitGroup count the goroutines.                   *)
Counts == sem = Cardinality(HoldsToken) /\ wg = Cardinality(Awaited)

(* What the goroutines have made so far.                                   *)
AssetsAreMade ==
  main \in {"building", "serving"} =>
    /\ missing = {}
    /\ assets = [k \in ({"full"} \X Files) \cup {AssetOf(n) : n \in Good} |-> assets[k]]
    /\ \A f \in Files : assets[<<"full", f>>] = Original(f)
    /\ \A n \in Good : assets[AssetOf(n)] = Resized(Original(FileOf(n)), VariantOf(n).width)

ErrorIsKept == firstEr = NoError <=> Ended = Good

MainKeepsOrder ==
  /\ main = "reading" => \A n \in Jobs : job[n] = "not started"
  /\ main = "failed" => ~Buildable /\ \A n \in Jobs : job[n] \in {"not started", "done"}
  /\ main = "serving" => firstEr = NoError /\ \A n \in Jobs : job[n] = "done"

StartInv == StartTypes /\ Counts /\ AssetsAreMade /\ ErrorIsKept /\ MainKeepsOrder
-----------------------------------------------------------------------------
(* The site and its loops do not change.                                   *)
LEMMA SiteStays ==
  ASSUME cfg' = cfg
  PROVE  /\ Variants' = Variants /\ Jobs' = Jobs
         /\ \A n : VariantOf(n)' = VariantOf(n) /\ AssetOf(n)' = AssetOf(n)
<1>1. Variants' = Variants
  BY DEF Variants
<1> QED BY <1>1 DEF Jobs, VariantOf, AssetOf

(* The site lists images.                                                  *)
LEMMA ImagesAreMany ==
  /\ Images \in Seq([file : STRING, slug : STRING])
  /\ Len(Images) \in Nat \ {0} /\ DOMAIN Images = 1..Len(Images)
  /\ Files # {} /\ NoError \notin Files
<1>1. Images \in Seq([file : STRING, slug : STRING]) /\ Images # <<>> /\ NoError \notin Files
  BY ImagesAssumption
<1>2. Len(Images) \in Nat \ {0} /\ DOMAIN Images = 1..Len(Images)
  BY <1>1
<1>3. 1 \in DOMAIN Images
  BY <1>2
<1> QED BY <1>1, <1>2, <1>3 DEF Files

(* A variant has a name of its own, "full" if it is the original.          *)
LEMMA VariantsAreNamed ==
  ASSUME cfg \in Configs
  PROVE  /\ Len(Variants) \in Nat /\ DOMAIN Variants = 1..Len(Variants)
         /\ \A i \in DOMAIN Variants : /\ Variants[i].width \in Int
                                       /\ Variants[i].name = "full" <=> Variants[i].width = 0
         /\ \A i, j \in DOMAIN Variants : Variants[i].name = Variants[j].name => i = j
<1>1. /\ cfg.variants \in Seq([name : STRING, width : Int])
      /\ \A i, j \in DOMAIN cfg.variants :
           cfg.variants[i].name = cfg.variants[j].name => i = j
      /\ \A i \in DOMAIN cfg.variants :
           cfg.variants[i].name = "full" <=> cfg.variants[i].width = 0
  BY ConfigsAssumption
<1>2. CASE cfg.variants = <<>>
  <2>1. Variants = << [name |-> "full", width |-> 0] >>
    BY <1>2 DEF Variants
  <2> QED BY <2>1
<1>3. CASE cfg.variants # <<>>
  <2>1. Variants = cfg.variants
    BY <1>3 DEF Variants
  <2> DEFINE s == cfg.variants
             R == [name : STRING, width : Int]
  <2>2. s \in Seq(R) BY <1>1
  <2>3. \A v \in R : v.width \in Int OBVIOUS
  <2> HIDE DEF s, R
  <2>4. Len(s) \in Nat /\ DOMAIN s = 1..Len(s) /\ \A i \in DOMAIN s : s[i] \in R
    BY <2>2
  <2>5. /\ Len(cfg.variants) \in Nat /\ DOMAIN cfg.variants = 1..Len(cfg.variants)
        /\ \A i \in DOMAIN cfg.variants : cfg.variants[i].width \in Int
    BY <2>3, <2>4 DEF s
  <2> QED BY <1>1, <2>1, <2>5
<1> QED BY <1>2, <1>3

(* Two goroutines with the same key make the same image.                   *)
LEMMA JobsAreVariants ==
  ASSUME cfg \in Configs
  PROVE  /\ \A n \in Jobs : /\ n[1] \in DOMAIN Variants /\ n[2] \in DOMAIN Images
                            /\ FileOf(n) \in Files /\ VariantOf(n).name # "full"
                            /\ VariantOf(n).width # 0
         /\ \A m, n \in Jobs : AssetOf(m) = AssetOf(n) =>
              VariantOf(m) = VariantOf(n) /\ FileOf(m) = FileOf(n)
<1>1. \A n \in Jobs : /\ n[1] \in DOMAIN Variants /\ n[2] \in DOMAIN Images
                      /\ FileOf(n) \in Files /\ VariantOf(n).name # "full"
                      /\ VariantOf(n).width # 0
  BY VariantsAreNamed DEF Jobs, FileOf, VariantOf, Files
<1>2. \A m, n \in Jobs : AssetOf(m) = AssetOf(n) =>
        VariantOf(m) = VariantOf(n) /\ FileOf(m) = FileOf(n)
  BY <1>1, VariantsAreNamed DEF AssetOf, VariantOf
<1> QED BY <1>1, <1>2

(* The goroutines can be counted.                                          *)
LEMMA JobSets ==
  ASSUME cfg \in Configs, NEW S \in SUBSET Jobs
  PROVE  IsFiniteSet(S) /\ Cardinality(S) \in 0..Cardinality(Jobs) /\ Cardinality(Jobs) \in Nat
<1>1. IsFiniteSet(DOMAIN Variants) /\ IsFiniteSet(DOMAIN Images)
  <2>1. DOMAIN Variants = 1..Len(Variants) /\ Len(Variants) \in Int
    BY VariantsAreNamed
  <2>2. DOMAIN Images = 1..Len(Images) /\ Len(Images) \in Int
    BY ImagesAreMany
  <2> QED BY <2>1, <2>2, FS_Interval
<1>2. IsFiniteSet((DOMAIN Variants) \X (DOMAIN Images))
  BY <1>1, FS_Product
<1>3. IsFiniteSet(Jobs)
  BY <1>2, FS_Subset DEF Jobs
<1>4. IsFiniteSet(S) /\ Cardinality(S) <= Cardinality(Jobs)
  BY <1>3, FS_Subset
<1>5. Cardinality(S) \in Nat /\ Cardinality(Jobs) \in Nat
  BY <1>3, <1>4, FS_CardinalityType
<1> QED BY <1>4, <1>5
-----------------------------------------------------------------------------
(* Nothing has been started yet.                                           *)
LEMMA InitStart == Init => StartInv
<1> SUFFICES ASSUME Init PROVE StartInv
  OBVIOUS
<1>1. StartTypes
  <2>1. sem \in 0..NumCPU /\ wg \in Nat /\ firstEr \in Files \cup {NoError}
    <3>1. sem = 0 /\ wg = 0 /\ firstEr = NoError BY DEF Init
    <3> QED BY <3>1, NumCPUAssumption
  <2>2. job \in [Jobs -> {"not started", "resizing", "registered", "released", "done"}]
    BY DEF Init
  <2>3. broken \subseteq Files
    BY DamagesAssumption DEF Init
  <2> QED BY <2>1, <2>2, <2>3 DEF Init, StartTypes
<1>2. HoldsToken = {} /\ Awaited = {} /\ Ended = {} /\ Good = {}
  BY DEF Init, HoldsToken, Awaited, Ended, Good
<1>3. Counts
  BY <1>2, FS_EmptySet DEF Init, Counts
<1>4. AssetsAreMade /\ ErrorIsKept /\ MainKeepsOrder
  BY <1>2 DEF Init, AssetsAreMade, ErrorIsKept, MainKeepsOrder
<1> QED BY <1>1, <1>3, <1>4 DEF StartInv

(* The originals are read, or one of them is missing.                      *)
LEMMA ReadOriginalsKeepsStart ==
  ASSUME StartInv, ReadOriginals
  PROVE  StartInv'
<1>1. /\ main = "reading" /\ UNCHANGED <<cfg, missing, broken, job, sem, wg, firstEr>>
      /\ IF missing # {}
           THEN main' = "failed" /\ assets' = assets
           ELSE main' = "building" /\ assets' = [k \in {"full"} \X Files |-> Original(k[2])]
  BY DEF ReadOriginals, siteVars
<1>2. Jobs' = Jobs /\ \A n \in Jobs : job[n] = "not started"
  BY <1>1, SiteStays DEF StartInv, MainKeepsOrder
<1>3. Ended = {} /\ Good = {} /\ Ended' = {} /\ Good' = {}
  BY <1>1, <1>2 DEF Ended, Good
<1>4. StartTypes' /\ Counts'
  BY <1>1, <1>2 DEF StartInv, StartTypes, Counts, HoldsToken, Awaited
<1>5. ErrorIsKept'
  BY <1>1, <1>3 DEF StartInv, ErrorIsKept
<1>6. AssetsAreMade'
  BY <1>1, <1>3 DEF AssetsAreMade
<1>7. MainKeepsOrder'
  BY <1>1, <1>2 DEF MainKeepsOrder, Buildable
<1> QED BY <1>4, <1>5, <1>6, <1>7 DEF StartInv

(* A goroutine more, with its token.                                       *)
LEMMA LaunchKeepsStart ==
  ASSUME StartInv, Launch
  PROVE  StartInv'
<1>1. PICK n \in Jobs : job[n] = "not started" /\ job' = [job EXCEPT ![n] = "resizing"]
  BY DEF Launch
<1>2. /\ main = "building" /\ sem < NumCPU /\ wg' = wg + 1 /\ sem' = sem + 1
      /\ UNCHANGED <<cfg, missing, broken, main, firstEr, assets>>
  BY DEF Launch, siteVars, TokenFree
<1>3. Jobs' = Jobs /\ (\A m : AssetOf(m)' = AssetOf(m) /\ VariantOf(m)' = VariantOf(m))
  BY <1>2, SiteStays
<1>4. StartTypes /\ cfg \in Configs
  BY DEF StartInv, StartTypes
<1>5. \A m \in Jobs : job'[m] = IF m = n THEN "resizing" ELSE job[m]
  BY <1>1, <1>4 DEF StartTypes
<1>6. StartTypes'
  <2>1. job' \in [Jobs' -> {"not started", "resizing", "registered", "released", "done"}]
    BY <1>1, <1>3, <1>4 DEF StartTypes
  <2>2. sem' \in 0..NumCPU /\ wg' \in Nat
    <3>1. sem \in 0..NumCPU /\ wg \in Nat BY <1>4 DEF StartTypes
    <3>2. sem < NumCPU /\ wg' = wg + 1 /\ sem' = sem + 1 BY <1>2
    <3> QED BY <3>1, <3>2, NumCPUAssumption
  <2> QED BY <1>2, <1>4, <2>1, <2>2 DEF StartTypes
<1>7. Counts'
  <2>1. HoldsToken' = HoldsToken \cup {n} /\ n \notin HoldsToken
    BY <1>1, <1>3, <1>5 DEF HoldsToken
  <2>2. Awaited' = Awaited \cup {n} /\ n \notin Awaited
    BY <1>1, <1>3, <1>5 DEF Awaited
  <2>3. IsFiniteSet(HoldsToken) /\ IsFiniteSet(Awaited)
    BY <1>4, JobSets DEF HoldsToken, Awaited
  <2>4. /\ Cardinality(HoldsToken') = Cardinality(HoldsToken) + 1
        /\ Cardinality(Awaited') = Cardinality(Awaited) + 1
    BY <2>1, <2>2, <2>3, FS_AddElement
  <2> QED BY <1>2, <2>4 DEF StartInv, Counts
<1>8. Ended' = Ended /\ Good' = Good
  <2>1. \A m \in Jobs : job'[m] \in {"registered", "released", "done"}
                          <=> job[m] \in {"registered", "released", "done"}
    <3> TAKE m \in Jobs
    <3>1. CASE m = n
      <4>1. job'[m] = "resizing" /\ job[m] = "not started" BY <1>1, <1>5, <3>1
      <4> QED BY <4>1
    <3>2. CASE m # n BY <1>5, <3>2
    <3> QED BY <3>1, <3>2
  <2>2. Ended' = Ended BY <1>3, <2>1 DEF Ended
  <2> QED BY <1>2, <2>2 DEF Good
<1>9. ErrorIsKept'
  BY <1>2, <1>8 DEF StartInv, ErrorIsKept
<1>10. AssetsAreMade'
  BY <1>2, <1>3, <1>8 DEF StartInv, AssetsAreMade
<1>11. MainKeepsOrder'
  BY <1>2 DEF MainKeepsOrder
<1> QED BY <1>6, <1>7, <1>9, <1>10, <1>11 DEF StartInv

(* A goroutine goes on: what the sets of goroutines become.                *)
LEMMA JobMoves ==
  ASSUME StartTypes, UNCHANGED <<cfg, broken>>, NEW n \in Jobs, NEW x,
         job' = [job EXCEPT ![n] = x]
  PROVE  /\ Jobs' = Jobs
         /\ \A m : AssetOf(m)' = AssetOf(m) /\ VariantOf(m)' = VariantOf(m)
         /\ \A m \in Jobs : job'[m] = IF m = n THEN x ELSE job[m]
         /\ x \in {"resizing", "registered", "released", "done"} =>
              job' \in [Jobs' -> {"not started", "resizing", "registered", "released", "done"}]
         /\ job[n] = "resizing" /\ x = "registered" =>
              /\ HoldsToken' = HoldsToken /\ Awaited' = Awaited
              /\ Ended' = Ended \cup {n} /\ n \notin Ended
         /\ job[n] = "registered" /\ x = "released" =>
              /\ HoldsToken' = HoldsToken \ {n} /\ n \in HoldsToken /\ Awaited' = Awaited
              /\ Ended' = Ended /\ Good' = Good
         /\ job[n] = "released" /\ x = "done" =>
              /\ HoldsToken' = HoldsToken /\ Awaited' = Awaited \ {n} /\ n \in Awaited
              /\ Ended' = Ended /\ Good' = Good
<1>1. Jobs' = Jobs /\ \A m : AssetOf(m)' = AssetOf(m) /\ VariantOf(m)' = VariantOf(m)
  BY SiteStays
<1>2. \A m \in Jobs : job'[m] = IF m = n THEN x ELSE job[m]
  BY DEF StartTypes
<1>3. x \in {"resizing", "registered", "released", "done"} =>
        job' \in [Jobs' -> {"not started", "resizing", "registered", "released", "done"}]
  BY <1>1 DEF StartTypes
<1>4. /\ HoldsToken' = {m \in Jobs : job'[m] \in {"resizing", "registered"}}
      /\ Awaited' = {m \in Jobs : job'[m] \in {"resizing", "registered", "released"}}
      /\ Ended' = {m \in Jobs : job'[m] \in {"registered", "released", "done"}}
  BY <1>1 DEF HoldsToken, Awaited, Ended
<1>5. ASSUME job[n] = "resizing", x = "registered"
      PROVE  /\ HoldsToken' = HoldsToken /\ Awaited' = Awaited
             /\ Ended' = Ended \cup {n} /\ n \notin Ended
  <2>1. \A m \in Jobs : /\ job'[m] \in {"resizing", "registered"}
                             <=> job[m] \in {"resizing", "registered"}
                        /\ job'[m] \in {"resizing", "registered", "released"}
                             <=> job[m] \in {"resizing", "registered", "released"}
                        /\ job'[m] \in {"registered", "released", "done"}
                             <=> m = n \/ job[m] \in {"registered", "released", "done"}
    BY <1>2, <1>5
  <2> QED BY <1>4, <1>5, <2>1 DEF HoldsToken, Awaited, Ended
<1>6. ASSUME job[n] = "registered", x = "released"
      PROVE  /\ HoldsToken' = HoldsToken \ {n} /\ n \in HoldsToken /\ Awaited' = Awaited
             /\ Ended' = Ended /\ Good' = Good
  <2>1. \A m \in Jobs : /\ job'[m] \in {"resizing", "registered"}
                             <=> m # n /\ job[m] \in {"resizing", "registered"}
                        /\ job'[m] \in {"resizing", "registered", "released"}
                             <=> job[m] \in {"resizing", "registered", "released"}
                        /\ job'[m] \in {"registered", "released", "done"}
                             <=> job[m] \in {"registered", "released", "done"}
    BY <1>2, <1>6
  <2>2. Ended' = Ended
    BY <1>4, <2>1 DEF Ended
  <2>3. Good' = Good
    BY <2>2 DEF Good
  <2> QED BY <1>4, <1>6, <2>1, <2>2, <2>3 DEF HoldsToken, Awaited
<1>7. ASSUME job[n] = "released", x = "done"
      PROVE  /\ HoldsToken' = HoldsToken /\ Awaited' = Awaited \ {n} /\ n \in Awaited
             /\ Ended' = Ended /\ Good' = Good
  <2>1. \A m \in Jobs : /\ job'[m] \in {"resizing", "registered"}
                             <=> job[m] \in {"resizing", "registered"}
                        /\ job'[m] \in {"resizing", "registered", "released"}
                             <=> m # n /\ job[m] \in {"resizing", "registered", "released"}
                        /\ job'[m] \in {"registered", "released", "done"}
                             <=> job[m] \in {"registered", "released", "done"}
    BY <1>2, <1>7
  <2>2. Ended' = Ended
    BY <1>4, <2>1 DEF Ended
  <2>3. Good' = Good
    BY <2>2 DEF Good
  <2> QED BY <1>4, <1>7, <2>1, <2>2, <2>3 DEF HoldsToken, Awaited
<1> QED BY <1>1, <1>2, <1>3, <1>5, <1>6, <1>7

(* As long as no goroutine registers, what has been made stays.            *)
LEMMA AssetsStay ==
  ASSUME AssetsAreMade, main \in {"building", "serving"},
         UNCHANGED <<cfg, missing, assets>>, Good' = Good
  PROVE  AssetsAreMade'
<1>1. \A m : AssetOf(m)' = AssetOf(m) /\ VariantOf(m)' = VariantOf(m)
  BY SiteStays
<1>2. /\ missing = {}
      /\ assets = [k \in ({"full"} \X Files) \cup {AssetOf(n) : n \in Good} |-> assets[k]]
      /\ \A f \in Files : assets[<<"full", f>>] = Original(f)
      /\ \A n \in Good : assets[AssetOf(n)] = Resized(Original(FileOf(n)), VariantOf(n).width)
  BY DEF AssetsAreMade
<1>3. {AssetOf(n)' : n \in Good'} = {AssetOf(n) : n \in Good}
  BY <1>1
<1>4. assets' = [k \in ({"full"} \X Files) \cup {AssetOf(n)' : n \in Good'} |-> assets'[k]]
  BY <1>2, <1>3
<1>5. \A n \in Good' : assets'[AssetOf(n)'] = Resized(Original(FileOf(n)), VariantOf(n)'.width)
  BY <1>1, <1>2
<1> QED BY <1>2, <1>4, <1>5 DEF AssetsAreMade

(* While a goroutine is under way, the main one builds.                    *)
LEMMA JobsAreBuilding ==
  ASSUME StartInv, NEW n \in Jobs, job[n] \in {"resizing", "registered", "released"}
  PROVE  main = "building"
BY DEF StartInv, StartTypes, MainKeepsOrder

(* An asset more, or an error.                                             *)
LEMMA RegisterKeepsStart ==
  ASSUME StartInv, NEW n \in Jobs, Register(n)
  PROVE  StartInv'
<1> DEFINE f == FileOf(n)
           v == VariantOf(n)
           k == AssetOf(n)
           image == Resized(Original(f), v.width)
<1>1. /\ job[n] = "resizing" /\ job' = [job EXCEPT ![n] = "registered"]
      /\ firstEr' = ErrorAfter(f)
      /\ assets' = IF f \in broken THEN assets ELSE With(assets, k, image)
      /\ UNCHANGED <<cfg, missing, broken, main, sem, wg>>
  BY DEF Register, siteVars, AssetOf
<1>2. main = "building" /\ StartTypes /\ cfg \in Configs
  BY <1>1, JobsAreBuilding DEF StartInv, StartTypes
<1>3. /\ Jobs' = Jobs
      /\ \A m : AssetOf(m)' = AssetOf(m) /\ VariantOf(m)' = VariantOf(m)
      /\ \A m \in Jobs : job'[m] = IF m = n THEN "registered" ELSE job[m]
      /\ job' \in [Jobs' -> {"not started", "resizing", "registered", "released", "done"}]
      /\ HoldsToken' = HoldsToken /\ Awaited' = Awaited
      /\ Ended' = Ended \cup {n} /\ n \notin Ended
  BY <1>1, <1>2, JobMoves
<1>4. f \in Files
  BY <1>2, JobsAreVariants
<1>5. firstEr' = IF f \in broken /\ firstEr = NoError THEN f ELSE firstEr
  BY <1>1 DEF ErrorAfter
<1>6. StartTypes'
  BY <1>1, <1>2, <1>3, <1>4, <1>5 DEF StartTypes
<1>7. Counts'
  BY <1>1, <1>3 DEF StartInv, Counts
<1>8. Good' = IF f \in broken THEN Good ELSE Good \cup {n}
  <2>1. Good' = {m \in Ended' : FileOf(m) \notin broken}
    BY <1>1 DEF Good
  <2> QED BY <1>3, <2>1 DEF Good
<1>9. ErrorIsKept'
  <2>1. n \notin Good /\ Good \subseteq Ended
    BY <1>3 DEF Good
  <2>2. f # NoError
    BY <1>4, ImagesAreMany
  <2> QED BY <1>3, <1>5, <1>8, <2>1, <2>2 DEF StartInv, ErrorIsKept
<1>10. AssetsAreMade'
  <2> DEFINE Keys == ({"full"} \X Files) \cup {AssetOf(m) : m \in Good}
  <2>1. /\ missing = {}
        /\ assets = [x \in Keys |-> assets[x]]
        /\ \A g \in Files : assets[<<"full", g>>] = Original(g)
        /\ \A m \in Good : assets[AssetOf(m)] = Resized(Original(FileOf(m)), VariantOf(m).width)
    BY <1>2 DEF StartInv, AssetsAreMade
  <2>2. CASE f \in broken
    <3>1. assets' = assets /\ Good' = Good BY <1>1, <1>8, <2>2
    <3> QED BY <1>1, <1>2, <3>1, AssetsStay DEF StartInv
  <2>3. CASE f \notin broken
    <3>1. assets' = With(assets, k, image) /\ Good' = Good \cup {n}
      BY <1>1, <1>8, <2>3
    <3>2. DOMAIN assets = Keys
      BY <2>1
    <3> HIDE DEF image
    <3>3. /\ DOMAIN assets' = Keys \cup {k}
          /\ assets' = [x \in Keys \cup {k} |-> assets'[x]]
          /\ assets'[k] = image /\ \A x \in Keys : x # k => assets'[x] = assets[x]
      <4> HIDE DEF Keys, k
      <4>1. assets' = [x \in Keys \cup {k} |-> IF x = k THEN image ELSE assets[x]]
        BY <3>1, <3>2 DEF With
      <4> QED BY <4>1
    <3>4. Keys \cup {k} = ({"full"} \X Files) \cup {AssetOf(m)' : m \in Good'}
      BY <1>3, <3>1
    <3>5. ASSUME NEW g \in Files PROVE assets'[<<"full", g>>] = Original(g)
      <4>1. <<"full", g>> # k
        BY <1>2, JobsAreVariants DEF AssetOf
      <4> QED BY <2>1, <3>3, <4>1
    <3>6. ASSUME NEW m \in Good'
          PROVE  assets'[AssetOf(m)] = Resized(Original(FileOf(m)), VariantOf(m).width)
      <4>1. CASE AssetOf(m) = k
        <5>1. m \in Jobs BY <3>1 DEF Good, Ended
        <5>2. VariantOf(m) = v /\ FileOf(m) = f
          BY <1>2, <4>1, <5>1, JobsAreVariants
        <5> QED BY <3>3, <4>1, <5>2 DEF image
      <4>2. CASE AssetOf(m) # k
        <5>1. m \in Good BY <3>1, <4>2
        <5>2. AssetOf(m) \in Keys BY <5>1
        <5> QED BY <2>1, <3>3, <4>2, <5>1, <5>2
      <4> QED BY <4>1, <4>2
    <3>7. assets' = [x \in ({"full"} \X Files) \cup {AssetOf(m)' : m \in Good'} |-> assets'[x]]
      BY <3>3, <3>4
    <3>8. \A m \in Good' :
            assets'[AssetOf(m)'] = Resized(Original(FileOf(m)), VariantOf(m)'.width)
      BY <1>3, <3>6
    <3> QED BY <1>1, <2>1, <3>5, <3>7, <3>8 DEF AssetsAreMade
  <2> QED BY <2>2, <2>3
<1>11. MainKeepsOrder'
  BY <1>1, <1>2 DEF MainKeepsOrder
<1> QED BY <1>6, <1>7, <1>9, <1>10, <1>11 DEF StartInv

(* A token less.                                                           *)
LEMMA ReleaseKeepsStart ==
  ASSUME StartInv, NEW n \in Jobs, Release(n)
  PROVE  StartInv'
<1>1. /\ job[n] = "registered" /\ job' = [job EXCEPT ![n] = "released"] /\ sem' = sem - 1
      /\ UNCHANGED <<cfg, missing, broken, main, wg, firstEr, assets>>
  BY DEF Release, siteVars, Released
<1>2. main = "building" /\ StartTypes /\ cfg \in Configs
  BY <1>1, JobsAreBuilding DEF StartInv, StartTypes
<1>3. /\ Jobs' = Jobs
      /\ \A m : AssetOf(m)' = AssetOf(m) /\ VariantOf(m)' = VariantOf(m)
      /\ job' \in [Jobs' -> {"not started", "resizing", "registered", "released", "done"}]
      /\ HoldsToken' = HoldsToken \ {n} /\ n \in HoldsToken /\ Awaited' = Awaited
      /\ Ended' = Ended /\ Good' = Good
  BY <1>1, <1>2, JobMoves
<1>4. sem = Cardinality(HoldsToken) /\ sem' = Cardinality(HoldsToken') /\ sem' \in 0..NumCPU
  <2>1. HoldsToken \in SUBSET Jobs /\ HoldsToken \ {n} \in SUBSET Jobs
    BY DEF HoldsToken
  <2>2. IsFiniteSet(HoldsToken) /\ Cardinality(HoldsToken \ {n}) \in Nat
    BY <1>2, <2>1, JobSets
  <2>3. Cardinality(HoldsToken \ {n}) = Cardinality(HoldsToken) - 1
    BY <1>3, <2>2, FS_RemoveElement
  <2>4. sem = Cardinality(HoldsToken) /\ sem \in 0..NumCPU
    BY DEF StartInv, Counts, StartTypes
  <2>5. sem' = sem - 1 /\ Cardinality(HoldsToken') = sem - 1 /\ sem - 1 \in Nat
    BY <1>1, <1>3, <2>2, <2>3, <2>4
  <2>6. sem' \in 0..NumCPU
    BY <2>4, <2>5, NumCPUAssumption
  <2> QED BY <2>4, <2>5, <2>6
<1>5. StartTypes'
  BY <1>1, <1>2, <1>3, <1>4 DEF StartTypes
<1>6. Counts'
  BY <1>1, <1>3, <1>4 DEF StartInv, Counts
<1>7. ErrorIsKept'
  BY <1>1, <1>3 DEF StartInv, ErrorIsKept
<1>8. AssetsAreMade'
  BY <1>1, <1>2, <1>3, AssetsStay DEF StartInv
<1>9. MainKeepsOrder'
  BY <1>1, <1>2 DEF MainKeepsOrder
<1> QED BY <1>5, <1>6, <1>7, <1>8, <1>9 DEF StartInv

(* A goroutine less to wait for.                                           *)
LEMMA DoneKeepsStart ==
  ASSUME StartInv, NEW n \in Jobs, Done(n)
  PROVE  StartInv'
<1>1. /\ job[n] = "released" /\ job' = [job EXCEPT ![n] = "done"] /\ wg' = wg - 1
      /\ UNCHANGED <<cfg, missing, broken, main, sem, firstEr, assets>>
  BY DEF Done, siteVars
<1>2. main = "building" /\ StartTypes /\ cfg \in Configs
  BY <1>1, JobsAreBuilding DEF StartInv, StartTypes
<1>3. /\ Jobs' = Jobs
      /\ \A m : AssetOf(m)' = AssetOf(m) /\ VariantOf(m)' = VariantOf(m)
      /\ job' \in [Jobs' -> {"not started", "resizing", "registered", "released", "done"}]
      /\ HoldsToken' = HoldsToken /\ Awaited' = Awaited \ {n} /\ n \in Awaited
      /\ Ended' = Ended /\ Good' = Good
  BY <1>1, <1>2, JobMoves
<1>4. wg = Cardinality(Awaited) /\ wg' = Cardinality(Awaited') /\ wg' \in Nat
  <2>1. Awaited \in SUBSET Jobs /\ Awaited \ {n} \in SUBSET Jobs
    BY DEF Awaited
  <2>2. IsFiniteSet(Awaited) /\ Cardinality(Awaited \ {n}) \in Nat
    BY <1>2, <2>1, JobSets
  <2>3. Cardinality(Awaited \ {n}) = Cardinality(Awaited) - 1
    BY <1>3, <2>2, FS_RemoveElement
  <2>4. wg = Cardinality(Awaited)
    BY DEF StartInv, Counts
  <2> QED BY <1>1, <1>3, <2>2, <2>3, <2>4
<1>5. StartTypes'
  BY <1>1, <1>2, <1>3, <1>4 DEF StartTypes
<1>6. Counts'
  BY <1>1, <1>3, <1>4 DEF StartInv, Counts
<1>7. ErrorIsKept'
  BY <1>1, <1>3 DEF StartInv, ErrorIsKept
<1>8. AssetsAreMade'
  BY <1>1, <1>2, <1>3, AssetsStay DEF StartInv
<1>9. MainKeepsOrder'
  BY <1>1, <1>2 DEF MainKeepsOrder
<1> QED BY <1>5, <1>6, <1>7, <1>8, <1>9 DEF StartInv

(* wg.Wait has returned: every goroutine is done, and each image has been  *)
(* resized, or firstEr tells.                                              *)
LEMMA BuiltKeepsStart ==
  ASSUME StartInv, Built
  PROVE  StartInv'
<1>1. /\ main = "building" /\ wg = 0 /\ \A n \in Jobs : job[n] # "not started"
      /\ main' = IF firstEr = NoError THEN "serving" ELSE "failed"
      /\ UNCHANGED <<cfg, missing, broken, job, sem, wg, firstEr, assets>>
  BY DEF Built, siteVars, AllDone
<1>2. StartTypes /\ cfg \in Configs
  BY DEF StartInv, StartTypes
<1>3. Jobs' = Jobs /\ \A m : AssetOf(m)' = AssetOf(m) /\ VariantOf(m)' = VariantOf(m)
  BY <1>1, SiteStays
<1>4. Awaited = {}
  <2>1. Awaited \in SUBSET Jobs /\ Cardinality(Awaited) = 0
    BY <1>1 DEF Awaited, StartInv, Counts
  <2>2. IsFiniteSet(Awaited)
    BY <1>2, <2>1, JobSets
  <2> QED BY <2>1, <2>2, FS_EmptySet
<1>5. \A n \in Jobs : job[n] = "done"
  BY <1>1, <1>2, <1>4 DEF Awaited, StartTypes
<1>6. StartTypes'
  BY <1>1, <1>2, <1>3 DEF StartTypes
<1>7. Counts'
  BY <1>1, <1>3 DEF StartInv, Counts, HoldsToken, Awaited
<1>8. Ended' = Ended /\ Good' = Good
  BY <1>1, <1>3 DEF Ended, Good
<1>9. ErrorIsKept'
  BY <1>1, <1>8 DEF StartInv, ErrorIsKept
<1>10. AssetsAreMade'
  BY <1>1, <1>3, <1>8 DEF StartInv, AssetsAreMade
<1>11. MainKeepsOrder'
  <2>1. CASE firstEr = NoError
    BY <1>1, <1>3, <1>5, <2>1 DEF MainKeepsOrder
  <2>2. CASE firstEr # NoError
    <3>1. PICK n \in Ended : FileOf(n) \in broken
      BY <2>2 DEF StartInv, ErrorIsKept, Good
    <3>2. ~Buildable'
      BY <1>1, <1>3, <3>1 DEF Buildable, Ended
    <3> QED BY <1>1, <1>3, <1>5, <2>2, <3>2 DEF MainKeepsOrder
  <2> QED BY <2>1, <2>2
<1> QED BY <1>6, <1>7, <1>9, <1>10, <1>11 DEF StartInv

(* Nothing that serves requests touches what start-up has made.            *)
LEMMA OthersKeepStart ==
  ASSUME StartInv, UNCHANGED <<siteVars, buildVars>>
  PROVE  StartInv'
<1>1. UNCHANGED <<cfg, missing, broken, main, job, sem, wg, firstEr, assets>>
  BY DEF siteVars, buildVars
<1>2. Jobs' = Jobs /\ \A m : AssetOf(m)' = AssetOf(m) /\ VariantOf(m)' = VariantOf(m)
  BY <1>1, SiteStays
<1>3. /\ HoldsToken' = HoldsToken /\ Awaited' = Awaited /\ Ended' = Ended
      /\ Good' = Good
  BY <1>1, <1>2 DEF HoldsToken, Awaited, Ended, Good
<1>4. StartTypes' /\ Counts' /\ ErrorIsKept' /\ MainKeepsOrder'
  BY <1>1, <1>2, <1>3 DEF StartInv, StartTypes, Counts, ErrorIsKept, MainKeepsOrder, Buildable
<1>5. AssetsAreMade'
  BY <1>1, <1>2, <1>3 DEF StartInv, AssetsAreMade
<1> QED BY <1>4, <1>5 DEF StartInv

(* Every step of the server keeps what start-up has made.                  *)
LEMMA StartIsKept == StartInv /\ [Next]_vars => StartInv'
<1> SUFFICES ASSUME StartInv, [Next]_vars PROVE StartInv'
  OBVIOUS
<1>1. CASE Build
  BY <1>1, ReadOriginalsKeepsStart, LaunchKeepsStart, BuiltKeepsStart DEF Build
<1>2. ASSUME NEW n \in Jobs, Job(n) PROVE StartInv'
  BY <1>2, RegisterKeepsStart, ReleaseKeepsStart, DoneKeepsStart DEF Job
<1>3. CASE UNCHANGED <<siteVars, buildVars>>
  BY <1>3, OthersKeepStart
<1>4. \/ Build \/ \E n \in Jobs : Job(n)
      \/ UNCHANGED <<siteVars, buildVars>>
  BY DEF Next, Handle, Answer, Misses, Resize, Request, Tick, vars
<1> QED BY <1>1, <1>2, <1>3, <1>4
-----------------------------------------------------------------------------
(* The start-up never goes wrong in between, whatever order the goroutines *)
(* run in.                                                                 *)
THEOREM StartInvariance == Spec => []StartInv
BY InitStart, StartIsKept, PTL DEF Spec

(* Every variant of every image is in place, and nothing else.             *)
LEMMA EverythingIsMade ==
  ASSUME StartInv, Serving
  PROVE  /\ Buildable /\ Good = Jobs
         /\ DOMAIN assets = ({"full"} \X Files) \cup {AssetOf(n) : n \in Jobs}
<1>1. /\ StartTypes /\ cfg \in Configs /\ broken \subseteq Files
      /\ firstEr = NoError /\ \A n \in Jobs : job[n] = "done"
  BY DEF StartInv, StartTypes, MainKeepsOrder, Serving
<1>2. Ended = Jobs /\ Ended = Good
  BY <1>1 DEF StartInv, ErrorIsKept, Ended
<1>3. missing = {} /\ DOMAIN assets = ({"full"} \X Files) \cup {AssetOf(n) : n \in Good}
  BY DEF StartInv, AssetsAreMade, Serving
<1>4. ASSUME NEW n \in Jobs, NEW f \in broken PROVE FALSE
  <2>1. PICK i \in DOMAIN Images : Images[i].file = f
    BY <1>1, <1>4 DEF Files
  <2>2. <<n[1], i>> \in Jobs /\ FileOf(<<n[1], i>>) = f
    BY <2>1 DEF Jobs, FileOf
  <2> QED BY <1>2, <1>4, <2>2 DEF Good
<1> QED BY <1>2, <1>3, <1>4 DEF Buildable

(* What has been made is each variant of each image.                       *)
LEMMA StartCompletes == StartInv => StartIsComplete
<1> SUFFICES ASSUME StartInv PROVE StartIsComplete
  OBVIOUS
<1>1. main = "failed" => ~Buildable
  BY DEF StartInv, MainKeepsOrder
<1>2. ASSUME Serving
      PROVE  assets = [k \in {Variants[i].name : i \in DOMAIN Variants} \X Files
                               \cup {"full"} \X Files |->
                         AtWidth(k[2], IF k[1] = "full" THEN 0
                                       ELSE (CHOOSE v \in {Variants[i] : i \in DOMAIN Variants} :
                                               v.name = k[1]).width)]
  <2> DEFINE Names == {Variants[i].name : i \in DOMAIN Variants}
             Rows == {Variants[i] : i \in DOMAIN Variants}
             WidthOf(k) == IF k[1] = "full" THEN 0 ELSE (CHOOSE v \in Rows : v.name = k[1]).width
  <2>1. cfg \in Configs
    BY DEF StartInv, StartTypes
  <2>2. /\ Good = Jobs
        /\ DOMAIN assets = ({"full"} \X Files) \cup {AssetOf(n) : n \in Jobs}
    BY <1>2, EverythingIsMade
  <2>3. /\ assets = [k \in DOMAIN assets |-> assets[k]]
        /\ \A f \in Files : assets[<<"full", f>>] = Original(f)
        /\ \A n \in Jobs : assets[AssetOf(n)] = Resized(Original(FileOf(n)), VariantOf(n).width)
    BY <1>2, <2>2 DEF StartInv, AssetsAreMade, Serving
  <2>4. DOMAIN assets = (Names \X Files) \cup ({"full"} \X Files)
    <3>1. ASSUME NEW n \in Jobs PROVE AssetOf(n) \in Names \X Files
      BY <2>1, JobsAreVariants DEF AssetOf, VariantOf
    <3>2. ASSUME NEW i \in DOMAIN Variants, NEW f \in Files, Variants[i].name # "full"
          PROVE  \E n \in Jobs : AssetOf(n) = <<Variants[i].name, f>>
      <4>1. PICK j \in DOMAIN Images : Images[j].file = f
        BY DEF Files
      <4>2. Variants[i].width # 0
        BY <2>1, <3>2, VariantsAreNamed
      <4>3. <<i, j>> \in Jobs /\ AssetOf(<<i, j>>) = <<Variants[i].name, f>>
        BY <4>1, <4>2 DEF Jobs, AssetOf, VariantOf, FileOf
      <4> QED BY <4>3
    <3>3. ASSUME NEW k \in Names \X Files
          PROVE  k \in ({"full"} \X Files) \cup {AssetOf(n) : n \in Jobs}
      <4>1. PICK i \in DOMAIN Variants, f \in Files : k = <<Variants[i].name, f>>
        BY <3>3
      <4> QED BY <3>2, <4>1
    <3> HIDE DEF Names
    <3> QED BY <2>2, <3>1, <3>3
  <2>5. ASSUME NEW k \in DOMAIN assets PROVE assets[k] = AtWidth(k[2], WidthOf(k))
    <3>1. CASE k \in {"full"} \X Files
      <4>1. k = <<"full", k[2]>> /\ k[2] \in Files /\ WidthOf(k) = 0
        BY <3>1
      <4> HIDE DEF WidthOf
      <4> QED BY <2>3, <4>1 DEF AtWidth
    <3>2. CASE k \notin {"full"} \X Files
      <4>1. PICK n \in Jobs : k = AssetOf(n)
        BY <2>2, <3>2
      <4>2. /\ n[1] \in DOMAIN Variants /\ VariantOf(n) = Variants[n[1]]
            /\ k[1] = VariantOf(n).name /\ k[2] = FileOf(n)
            /\ k[1] # "full" /\ VariantOf(n).width # 0
        BY <2>1, <4>1, JobsAreVariants DEF AssetOf, VariantOf
      <4>3. VariantOf(n) \in Rows
        BY <4>2
      <4>4. \A v \in Rows : v.name = k[1] => v = VariantOf(n)
        BY <2>1, <4>2, VariantsAreNamed
      <4> HIDE DEF Rows
      <4>5. (CHOOSE v \in Rows : v.name = k[1]) = VariantOf(n)
        BY <4>2, <4>3, <4>4
      <4>6. WidthOf(k) = VariantOf(n).width
        BY <4>2, <4>5
      <4> HIDE DEF WidthOf
      <4> QED BY <2>3, <4>1, <4>2, <4>6 DEF AtWidth
    <3> QED BY <3>1, <3>2
  <2> HIDE DEF WidthOf, Names
  <2>6. assets = [k \in (Names \X Files) \cup ({"full"} \X Files) |-> AtWidth(k[2], WidthOf(k))]
    BY <2>3, <2>4, <2>5
  <2> QED BY <2>6 DEF Names, WidthOf
<1> QED BY <1>1, <1>2, EverythingIsMade DEF StartIsComplete

(* The server serves exactly if everything listed is there and could be    *)
(* resized, and then it has all of it, made from the originals.            *)
THEOREM StartCompleteness == Spec => []StartIsComplete
BY StartInvariance, StartCompletes, PTL
-----------------------------------------------------------------------------
(* Handlers run while the server serves, and resize what there is.         *)
HandlersAreServed ==
  /\ handler \in [Requests -> {"idle", "called", "resizing", "done"}]
  /\ path \in [Requests -> Paths \cup {Nothing}]
  /\ reply = [r \in Requests |-> reply[r]]
  /\ \A r \in Requests :
       /\ handler[r] # "idle" => Serving
       /\ handler[r] = "resizing" => LooksUp(path[r]) /\ path[r].file \in Files

DerivedInv == HandlersAreServed /\ derived = [k \in DOMAIN derived |-> derived[k]] /\ DerivedTruthful

(* A request that is answered is answered well.                            *)
AnsweredWell(c, b, p, answer) ==
  c.profile = "dynamic" /\ p.kind = "derived" =>
    answer = IF p.width \notin c.allowedWidths THEN BadRequest
             ELSE IF p.file \in Files \ b THEN Found(Resized(Original(p.file), p.width))
             ELSE NotFound

CopiesAreTrue(c, b, d) ==
  \A k \in DOMAIN d : /\ k \in c.allowedWidths \X (Files \ b)
                      /\ d[k] = Resized(Original(k[2]), k[1])

(* DerivedTruthful, request for request and copy for copy.                 *)
LEMMA TruthfulByPart ==
  /\ DerivedTruthful <=>
       /\ \A r \in Requests : handler[r] = "done" => AnsweredWell(cfg, broken, path[r], reply[r])
       /\ CopiesAreTrue(cfg, broken, derived)
  /\ DerivedTruthful' <=>
       /\ \A r \in Requests :
            handler'[r] = "done" => AnsweredWell(cfg', broken', path'[r], reply'[r])
       /\ CopiesAreTrue(cfg', broken', derived')
<1>1. DerivedTruthful <=>
       /\ \A r \in Requests : handler[r] = "done" => AnsweredWell(cfg, broken, path[r], reply[r])
       /\ CopiesAreTrue(cfg, broken, derived)
  BY DEF DerivedTruthful, AnsweredWell, CopiesAreTrue, Derives, DerivedAnswer, widthAllowed
<1>2. DerivedTruthful' <=>
       /\ \A r \in Requests :
            handler'[r] = "done" => AnsweredWell(cfg', broken', path'[r], reply'[r])
       /\ CopiesAreTrue(cfg', broken', derived')
  BY DEF DerivedTruthful, AnsweredWell, CopiesAreTrue, Derives, DerivedAnswer, widthAllowed
<1> QED BY <1>1, <1>2

(* The original of a file is there if the file is one of the site's.       *)
LEMMA OriginalsAreThere ==
  ASSUME StartInv, Serving, NEW p
  PROVE  /\ NoOriginal(p) <=> p.file \notin Files
         /\ p.file \in Files => assets[<<"full", p.file>>] = Original(p.file)
<1>1. DOMAIN assets = ({"full"} \X Files) \cup {AssetOf(n) : n \in Jobs}
  BY EverythingIsMade
<1>2. \A n \in Jobs : AssetOf(n) # <<"full", p.file>>
  BY JobsAreVariants DEF StartInv, StartTypes, AssetOf
<1>3. <<"full", p.file>> \in DOMAIN assets <=> p.file \in Files
  BY <1>1, <1>2
<1>4. NoOriginal(p) <=> <<"full", p.file>> \notin DOMAIN assets
  BY DEF NoOriginal, variantBytes, Found, NotFound
<1>5. p.file \in Files => assets[<<"full", p.file>>] = Original(p.file)
  BY DEF StartInv, AssetsAreMade, Serving
<1> QED BY <1>3, <1>4, <1>5

(* Nobody has asked for anything.                                          *)
LEMMA InitDerived == Init => DerivedInv
<1> SUFFICES ASSUME Init PROVE DerivedInv
  OBVIOUS
<1>1. /\ handler = [r \in Requests |-> "idle"] /\ path = [r \in Requests |-> Nothing]
      /\ reply = [r \in Requests |-> NoReply] /\ derived = [k \in {} |-> {}]
  BY DEF Init
<1>2. \A r \in Requests : handler[r] = "idle"
  BY <1>1
<1>3. HandlersAreServed
  BY <1>1, <1>2 DEF HandlersAreServed
<1>4. DOMAIN derived = {} /\ derived = [k \in DOMAIN derived |-> derived[k]]
  BY <1>1
<1>5. DerivedTruthful
  BY <1>2, <1>4, TruthfulByPart DEF CopiesAreTrue
<1> QED BY <1>3, <1>4, <1>5 DEF DerivedInv

(* Whatever leaves the requests and the copies alone, and the server       *)
(* serving.                                                                *)
LEMMA OthersKeepDerived ==
  ASSUME DerivedInv, UNCHANGED <<siteVars, derived, requestVars>>, Serving => Serving'
  PROVE  DerivedInv'
<1>1. UNCHANGED <<cfg, broken, derived, path, handler, reply>>
  BY DEF siteVars, requestVars
<1>2. HandlersAreServed'
  BY <1>1 DEF DerivedInv, HandlersAreServed, LooksUp, Derives, widthAllowed
<1>3. DerivedTruthful'
  BY <1>1, TruthfulByPart DEF DerivedInv
<1> QED BY <1>1, <1>2, <1>3 DEF DerivedInv

(* A request that comes in has not been answered.                          *)
LEMMA RequestKeepsDerived ==
  ASSUME DerivedInv, NEW r \in Requests, NEW p \in Paths, Request(r, p)
  PROVE  DerivedInv'
<1>1. /\ Serving /\ UNCHANGED <<cfg, broken, main, derived, reply>>
      /\ path' = [path EXCEPT ![r] = p] /\ handler' = [handler EXCEPT ![r] = "called"]
  BY DEF Request, siteVars, buildVars
<1>2. HandlersAreServed /\ Serving'
  BY <1>1 DEF DerivedInv, Serving
<1>3. /\ handler' \in [Requests -> {"idle", "called", "resizing", "done"}]
      /\ path' \in [Requests -> Paths \cup {Nothing}] /\ reply' = [q \in Requests |-> reply'[q]]
  BY <1>1, <1>2 DEF HandlersAreServed
<1>4. /\ handler'[r] = "called"
      /\ \A q \in Requests : q # r => handler'[q] = handler[q] /\ path'[q] = path[q]
  BY <1>1, <1>2 DEF HandlersAreServed
<1>5. HandlersAreServed'
  <2>1. ASSUME NEW q \in Requests, handler'[q] = "resizing"
        PROVE  LooksUp(path[q])' /\ path'[q].file \in Files
    <3>1. q # r /\ handler[q] = "resizing" /\ path'[q] = path[q]
      BY <1>4, <2>1
    <3>2. LooksUp(path[q]) /\ path[q].file \in Files
      BY <1>2, <3>1 DEF HandlersAreServed
    <3> QED BY <1>1, <3>1, <3>2 DEF LooksUp, Derives, widthAllowed
  <2> QED BY <1>2, <1>3, <2>1 DEF HandlersAreServed
<1>6. DerivedTruthful'
  BY <1>1, <1>4, TruthfulByPart DEF DerivedInv
<1> QED BY <1>1, <1>5, <1>6 DEF DerivedInv

(* A handler that answers, with copies that are true.                      *)
LEMMA AnswerKeepsDerived ==
  ASSUME DerivedInv, NEW r \in Requests, NEW answer, Ends(r, answer),
         UNCHANGED <<siteVars, buildVars, path>>, handler[r] # "idle",
         AnsweredWell(cfg, broken, path[r], answer), CopiesAreTrue(cfg, broken, derived'),
         derived' = [k \in DOMAIN derived' |-> derived'[k]]
  PROVE  DerivedInv'
<1>1. /\ UNCHANGED <<cfg, broken, main, path>>
      /\ reply' = [reply EXCEPT ![r] = answer] /\ handler' = [handler EXCEPT ![r] = "done"]
  BY DEF siteVars, buildVars, Ends
<1>2. HandlersAreServed /\ Serving /\ Serving'
  BY <1>1 DEF DerivedInv, HandlersAreServed, Serving
<1>3. /\ handler' \in [Requests -> {"idle", "called", "resizing", "done"}]
      /\ reply' = [q \in Requests |-> reply'[q]]
  BY <1>1, <1>2 DEF HandlersAreServed
<1>4. /\ handler'[r] = "done" /\ reply'[r] = answer
      /\ \A q \in Requests : q # r => handler'[q] = handler[q] /\ reply'[q] = reply[q]
  BY <1>1, <1>2 DEF HandlersAreServed
<1>5. HandlersAreServed'
  BY <1>1, <1>2, <1>3, <1>4 DEF HandlersAreServed, LooksUp, Derives, widthAllowed
<1>6. DerivedTruthful'
  BY <1>1, <1>4, TruthfulByPart DEF DerivedInv
<1> QED BY <1>5, <1>6 DEF DerivedInv

(* A step of a handler: an answer, a miss, or a copy that is stored.       *)
LEMMA HandleKeepsDerived ==
  ASSUME StartInv, DerivedInv, NEW r \in Requests, Handle(r)
  PROVE  DerivedInv'
<1> DEFINE p == path[r]
<1>1. /\ HandlersAreServed /\ derived = [k \in DOMAIN derived |-> derived[k]]
      /\ CopiesAreTrue(cfg, broken, derived)
  BY TruthfulByPart DEF DerivedInv
<1>2. handler[r] \in {"called", "resizing"} /\ Serving
  BY <1>1 DEF Handle, Answer, Misses, Resize, HandlersAreServed
<1>3. /\ NoOriginal(p) <=> p.file \notin Files
      /\ p.file \in Files => assets[<<"full", p.file>>] = Original(p.file)
  BY <1>2, OriginalsAreThere
<1>4. CASE Answer(r)
  <2>1. /\ UNCHANGED <<siteVars, buildVars, derived, path>>
        /\ \/ ~Derives(p) /\ Ends(r, Get(p))
           \/ Derives(p) /\ ~widthAllowed(p.width) /\ Ends(r, BadRequest)
           \/ LooksUp(p) /\ Cached(p) /\ Ends(r, Found(derived[Key(p)]))
           \/ LooksUp(p) /\ ~Cached(p) /\ NoOriginal(p) /\ Ends(r, NotFound)
    BY <1>4 DEF Answer
  <2>2. ASSUME NEW answer, Ends(r, answer), AnsweredWell(cfg, broken, p, answer)
        PROVE  DerivedInv'
    BY <1>1, <1>2, <2>1, <2>2, AnswerKeepsDerived
  <2>3. CASE ~Derives(p) /\ Ends(r, Get(p))
    <3>1. AnsweredWell(cfg, broken, p, Get(p)) BY <2>3 DEF AnsweredWell, Derives
    <3> QED BY <2>2, <2>3, <3>1
  <2>4. CASE Derives(p) /\ ~widthAllowed(p.width) /\ Ends(r, BadRequest)
    <3>1. AnsweredWell(cfg, broken, p, BadRequest) BY <2>4 DEF AnsweredWell, widthAllowed
    <3> QED BY <2>2, <2>4, <3>1
  <2>5. CASE LooksUp(p) /\ Cached(p) /\ Ends(r, Found(derived[Key(p)]))
    <3>1. /\ p.width \in cfg.allowedWidths /\ p.file \in Files \ broken
          /\ derived[Key(p)] = Resized(Original(p.file), p.width)
      BY <1>1, <2>5 DEF CopiesAreTrue, Cached, Key
    <3>2. AnsweredWell(cfg, broken, p, Found(derived[Key(p)]))
      BY <3>1 DEF AnsweredWell
    <3> QED BY <2>2, <2>5, <3>2
  <2>6. CASE LooksUp(p) /\ ~Cached(p) /\ NoOriginal(p) /\ Ends(r, NotFound)
    <3>1. AnsweredWell(cfg, broken, p, NotFound)
      BY <1>3, <2>6 DEF AnsweredWell, LooksUp, widthAllowed
    <3> QED BY <2>2, <2>6, <3>1
  <2> QED BY <2>1, <2>3, <2>4, <2>5, <2>6
<1>5. CASE Misses(r)
  <2>1. /\ LooksUp(p) /\ p.file \in Files /\ handler' = [handler EXCEPT ![r] = "resizing"]
        /\ UNCHANGED <<cfg, broken, main, derived, path, reply>>
    BY <1>3, <1>5 DEF Misses, siteVars, buildVars
  <2>2. /\ handler' \in [Requests -> {"idle", "called", "resizing", "done"}]
        /\ handler'[r] = "resizing" /\ \A q \in Requests : q # r => handler'[q] = handler[q]
    BY <1>1, <2>1 DEF HandlersAreServed
  <2>3. HandlersAreServed'
    <3>1. \A q \in Requests : handler'[q] # "idle" => Serving'
      BY <1>2, <2>1 DEF Serving
    <3>2. \A q \in Requests : handler'[q] = "resizing" => LooksUp(path[q]) /\ path[q].file \in Files
      BY <1>1, <2>1, <2>2 DEF HandlersAreServed
    <3> QED BY <1>1, <2>1, <2>2, <3>1, <3>2 DEF HandlersAreServed, LooksUp, Derives, widthAllowed
  <2>4. DerivedTruthful'
    BY <2>1, <2>2, TruthfulByPart DEF DerivedInv
  <2> QED BY <1>1, <2>1, <2>3, <2>4 DEF DerivedInv
<1>6. CASE Resize(r)
  <2> DEFINE image == Resized(Original(p.file), p.width)
  <2>1. LooksUp(p) /\ p.file \in Files /\ p.width \in cfg.allowedWidths
    BY <1>1, <1>6 DEF Resize, HandlersAreServed, LooksUp, widthAllowed
  <2>2. /\ UNCHANGED <<siteVars, buildVars, path>>
        /\ IF p.file \in broken
             THEN Ends(r, NotFound) /\ UNCHANGED derived
             ELSE Ends(r, Found(image)) /\ derived' = With(derived, Key(p), image)
    BY <1>3, <1>6, <2>1 DEF Resize
  <2>3. CASE p.file \in broken
    <3>1. AnsweredWell(cfg, broken, p, NotFound)
      BY <2>1, <2>3 DEF AnsweredWell
    <3> QED BY <1>1, <1>2, <2>2, <2>3, <3>1, AnswerKeepsDerived
  <2>4. CASE p.file \notin broken
    <3>1. AnsweredWell(cfg, broken, p, Found(image))
      BY <2>1, <2>4 DEF AnsweredWell
    <3> DEFINE key == Key(p)
    <3>2. /\ key \in cfg.allowedWidths \X (Files \ broken)
          /\ image = Resized(Original(key[2]), key[1])
      BY <2>1, <2>4 DEF Key
    <3>3. derived' = With(derived, key, image)
      BY <2>2, <2>4
    <3> HIDE DEF image, key
    <3>4. derived' = [k \in DOMAIN derived \cup {key} |-> IF k = key THEN image ELSE derived[k]]
      BY <3>3 DEF With
    <3>5. derived' = [k \in DOMAIN derived' |-> derived'[k]] /\ CopiesAreTrue(cfg, broken, derived')
      BY <1>1, <3>2, <3>4 DEF CopiesAreTrue
    <3>6. Ends(r, Found(image))
      BY <2>2, <2>4 DEF image
    <3> QED BY <1>1, <1>2, <2>2, <3>1, <3>5, <3>6, AnswerKeepsDerived DEF image
  <2> QED BY <2>3, <2>4
<1> QED BY <1>4, <1>5, <1>6 DEF Handle

(* Every step of the server keeps the derived images truthful.             *)
LEMMA DerivedIsKept == StartInv /\ DerivedInv /\ [Next]_vars => DerivedInv'
<1> SUFFICES ASSUME StartInv, DerivedInv, [Next]_vars PROVE DerivedInv'
  OBVIOUS
<1>1. CASE Build \/ (\E n \in Jobs : Job(n)) \/ Tick \/ UNCHANGED vars
  <2>1. UNCHANGED <<siteVars, derived, requestVars>>
    BY <1>1 DEF Build, ReadOriginals, Launch, Built, Job, Register, Release, Done, Tick, vars
  <2>2. Serving => Serving'
    <3>1. CASE Build
      BY <3>1 DEF Build, ReadOriginals, Launch, Built, Serving
    <3>2. CASE ~Build
      BY <1>1, <3>2 DEF Job, Register, Release, Done, Tick, vars, buildVars, Serving
    <3> QED BY <3>1, <3>2
  <2> QED BY <2>1, <2>2, OthersKeepDerived
<1>2. ASSUME NEW r \in Requests, Handle(r) PROVE DerivedInv'
  BY <1>2, HandleKeepsDerived
<1>3. ASSUME NEW r \in Requests, NEW p \in Paths, Request(r, p) PROVE DerivedInv'
  BY <1>3, RequestKeepsDerived
<1> QED BY <1>1, <1>2, <1>3 DEF Next

(* Handlers run only while the server serves, resize only what there is,   *)
(* and what they have stored and answered is right.                        *)
THEOREM DerivedInvariance == Spec => [](StartInv /\ DerivedInv)
<1>1. Init => StartInv /\ DerivedInv
  BY InitStart, InitDerived
<1>2. StartInv /\ DerivedInv /\ [Next]_vars => (StartInv /\ DerivedInv)'
  BY StartIsKept, DerivedIsKept
<1> QED BY <1>1, <1>2, PTL DEF Spec

(* Requests for derived images are answered as if each were alone, and the *)
(* copies are only those of the site's images at the widths it allows.     *)
THEOREM DerivedIsTruthful == Spec => []DerivedTruthful
<1>1. StartInv /\ DerivedInv => DerivedTruthful
  BY DEF DerivedInv
<1> QED BY <1>1, DerivedInvariance, PTL

(* Every variable of the server has its type; the counters stay between    *)
(* zero and what they count.                                               *)
THEOREM OriginTypes == Spec => []TypeOK
<1>1. StartInv /\ DerivedInv /\ RpsTypeOK => TypeOK
  <2> SUFFICES ASSUME StartInv, DerivedInv, RpsTypeOK PROVE TypeOK
    OBVIOUS
  <2>1. wg \in 0..Cardinality(Jobs)
    <3>1. Awaited \in SUBSET Jobs /\ wg = Cardinality(Awaited) /\ cfg \in Configs
      BY DEF Awaited, StartInv, StartTypes, Counts
    <3> QED BY <3>1, JobSets
  <2> QED BY <2>1 DEF StartInv, StartTypes, DerivedInv, HandlersAreServed, TypeOK
<1> QED BY <1>1, DerivedInvariance, MeterRefinement, TypeCorrect, PTL
-----------------------------------------------------------------------------
(* Pages of w images: x is on the page after (x - 1) \div w full ones.     *)
LEMMA Division ==
  ASSUME NEW x \in Int, NEW w \in Nat \ {0}
  PROVE  /\ x \div w \in Int
         /\ (x \div w) * w <= x /\ x < (x \div w) * w + w
OBVIOUS

(* Multiples of a positive number are ordered as their factors are.        *)
LEMMA FewerPages ==
  ASSUME NEW a \in Int, NEW b \in Int, NEW w \in Nat \ {0}
  PROVE  /\ a * w \in Int /\ (a - 1) * w = a * w - w
         /\ a <= b => a * w <= b * w
         /\ a * w < b * w => a < b
OBVIOUS

(* P pages of w images are what L images take.                             *)
PageOf(x, w) == ((x - 1) \div w) + 1
OnPage(x, p, w) == (p - 1) * w < x /\ x <= p * w

(* The pages up to the last are not empty and share out the images.        *)
LEMMA PagesPartition ==
  ASSUME NEW L \in Nat \ {0}, NEW w \in Nat \ {0}, NEW P, P = (L + w - 1) \div w
  PROVE  /\ P \in Int
         /\ \A p \in 1..P : \E x \in 1..L : OnPage(x, p, w)
         /\ \A x \in 1..L : /\ PageOf(x, w) \in 1..P
                            /\ \A p \in Int : OnPage(x, p, w) <=> p = PageOf(x, w)
<1>1. P \in Int /\ P * w <= L + w - 1 /\ L + w - 1 < P * w + w
  BY Division
<1>2. ASSUME NEW p \in 1..P PROVE \E x \in 1..L : OnPage(x, p, w)
  <2>1. p * w <= P * w /\ (p - 1) * w = p * w - w /\ p * w \in Int /\ P * w \in Int
    BY <1>1, FewerPages
  <2>2. 0 * w <= (p - 1) * w /\ 0 * w = 0
    <3>1. 0 \in Int /\ p - 1 \in Int /\ 0 <= p - 1 BY <1>1
    <3> QED BY <3>1, FewerPages
  <2> DEFINE k == (p - 1) * w
  <2>3. k \in Int /\ 0 <= k /\ k <= L - 1 /\ p * w = k + w
    BY <1>1, <2>1, <2>2
  <2>4. k + 1 \in 1..L /\ OnPage(k + 1, p, w)
    <3>1. k + 1 \in 1..L /\ k < k + 1 /\ k + 1 <= p * w
      <4> HIDE DEF k
      <4> QED BY <2>1, <2>3
    <3> QED BY <3>1 DEF OnPage
  <2> QED BY <2>4
<1>3. ASSUME NEW x \in 1..L
      PROVE  /\ PageOf(x, w) \in 1..P
             /\ \A p \in Int : OnPage(x, p, w) <=> p = PageOf(x, w)
  <2> DEFINE d == (x - 1) \div w
             q == PageOf(x, w)
  <2>1. x - 1 \in Int /\ d \in Int /\ d * w <= x - 1 /\ x - 1 < d * w + w
    <3>1. x - 1 \in Int OBVIOUS
    <3> QED BY <3>1, Division
  <2>2. q = d + 1 /\ q - 1 = d
    BY <2>1 DEF PageOf
  <2> HIDE DEF d, q
  <2>3. q \in Int /\ q * w \in Int /\ d * w = q * w - w
    BY <2>1, <2>2, FewerPages
  <2>4. 0 <= d
    <3>1. (-1) * w = 0 * w - w /\ 0 * w = 0 /\ -1 \in Int
      OBVIOUS
    <3>2. (-1) * w < d * w
      BY <2>1, <3>1
    <3>3. -1 < d
      BY <2>1, <3>1, <3>2, FewerPages
    <3> QED BY <2>1, <3>3
  <2>5. d < P
    <3>1. d * w < P * w
      BY <1>1, <2>1, FewerPages
    <3> QED BY <1>1, <2>1, <3>1, FewerPages
  <2>6. q \in 1..P
    BY <1>1, <2>1, <2>2, <2>4, <2>5
  <2>7. ASSUME NEW p \in Int, OnPage(x, p, w) PROVE p = q
    <3>1. (p - 1) * w < x /\ x <= p * w /\ (p - 1) * w = p * w - w /\ p * w \in Int
      BY <2>7, FewerPages DEF OnPage
    <3>2. (p - 1) * w < q * w /\ d * w < p * w
      BY <2>1, <2>3, <3>1
    <3>3. p - 1 < q /\ d < p
      BY <2>1, <2>3, <3>2, FewerPages
    <3> QED BY <2>1, <2>2, <2>3, <3>3
  <2>8. OnPage(x, q, w)
    <3>1. d * w < x /\ x <= q * w
      BY <2>1, <2>3
    <3> QED BY <2>2, <3>1 DEF OnPage
  <2> QED BY <2>6, <2>7, <2>8 DEF q
<1> QED BY <1>1, <1>2, <1>3

(* Each image of the site is on exactly one page, and no page is empty.    *)
LEMMA PagesAreServed ==
  ASSUME cfg \in Configs, cfg.profile = "catalog"
  PROVE  /\ \A p \in 1..pageCount : Get([kind |-> "page", page |-> p]).body # {}
         /\ \A i \in DOMAIN Images :
              \E p \in 1..pageCount :
                {q \in -1..pageCount + 1 : i \in Get([kind |-> "page", page |-> q]).body} = {p}
<1> DEFINE w == cfg.perPage
           L == Len(Images)
           Body(q) == Get([kind |-> "page", page |-> q]).body
<1>1. w \in Int /\ L \in Nat \ {0} /\ DOMAIN Images = 1..L
  BY ConfigsAssumption, ImagesAreMany
<1>2. ASSUME NEW q PROVE Body(q) = IF q \in 1..pageCount THEN imagesForPage(q) ELSE {}
  <2> DEFINE u == [kind |-> "page", page |-> q]
  <2>1. u.kind = "page" /\ u.page = q /\ Routed(u)
    BY DEF Routed
  <2> HIDE DEF u
  <2>2. Get(u) = IF u.page \in 1..pageCount THEN Found(imagesForPage(u.page)) ELSE NotFound
    BY <2>1 DEF Get
  <2> QED BY <2>1, <2>2 DEF Found, NotFound, u
<1>3. CASE w <= 0
  <2>1. pageCount = 1 /\ \A q : imagesForPage(q) = DOMAIN Images
    BY <1>1, <1>3 DEF pageCount, imagesForPage
  <2> HIDE DEF w, L, Body
  <2>2. \A p \in 1..pageCount : Body(p) # {}
    BY <1>1, <1>2, <2>1
  <2>3. ASSUME NEW i \in DOMAIN Images
        PROVE  \E p \in 1..pageCount : {q \in -1..pageCount + 1 : i \in Body(q)} = {p}
    <3>1. \A q : i \in Body(q) <=> q \in 1..1
      BY <1>2, <2>1
    <3>2. 1 \in 1..pageCount /\ {q \in -1..pageCount + 1 : i \in Body(q)} = {1}
      BY <2>1, <3>1
    <3> QED BY <3>2
  <2> QED BY <2>2, <2>3 DEF Body
<1>4. CASE w > 0
  <2> DEFINE P == (L + w - 1) \div w
  <2>1. /\ pageCount = P /\ w \in Nat \ {0}
        /\ \A q : imagesForPage(q) = {i \in 1..L : OnPage(i, q, w)}
    BY <1>1, <1>4 DEF pageCount, imagesForPage, OnPage
  <2> HIDE DEF w, L, Body
  <2>2. /\ P \in Int
        /\ \A p \in 1..P : \E x \in 1..L : OnPage(x, p, w)
        /\ \A x \in 1..L : /\ PageOf(x, w) \in 1..P
                           /\ \A p \in Int : OnPage(x, p, w) <=> p = PageOf(x, w)
    BY <1>1, <2>1, PagesPartition
  <2> HIDE DEF P
  <2>3. ASSUME NEW p \in 1..pageCount PROVE Body(p) # {}
    BY <1>2, <2>1, <2>2
  <2>4. ASSUME NEW i \in DOMAIN Images
        PROVE  \E p \in 1..pageCount : {q \in -1..pageCount + 1 : i \in Body(q)} = {p}
    <3> DEFINE p == PageOf(i, w)
    <3>1. p \in 1..P /\ \A q \in Int : OnPage(i, q, w) <=> q = p
      BY <1>1, <2>2
    <3> HIDE DEF p
    <3>2. ASSUME NEW q \in -1..P + 1 PROVE i \in Body(q) <=> q = p
      <4>1. q \in Int
        BY <2>2
      <4>2. i \in Body(q) <=> q \in 1..P /\ OnPage(i, q, w)
        BY <1>1, <1>2, <2>1
      <4> QED BY <3>1, <4>1, <4>2
    <3>3. p \in -1..P + 1
      BY <2>2, <3>1
    <3>4. {q \in -1..P + 1 : i \in Body(q)} = {p}
      BY <3>2, <3>3
    <3> QED BY <2>1, <3>1, <3>4
  <2> QED BY <2>3, <2>4 DEF Body
<1> QED BY <1>1, <1>3, <1>4

(* The URLs of a page's cache meter.                                       *)
LEMMA URLsAreServed ==
  ASSUME StartInv, Serving, NEW u \in MeterURLs
  PROVE  IF Derives(u) THEN u.file \notin broken => DerivedAnswer(u).status = 200
                       ELSE Get(u).status = 200
<1>1. cfg \in Configs /\ cfg.profile \in {"gallery", "catalog", "dynamic"}
  BY ConfigsAssumption DEF StartInv, StartTypes
<1>2. DOMAIN assets = {Variants[i].name : i \in DOMAIN Variants} \X Files \cup {"full"} \X Files
  BY StartCompletes DEF StartIsComplete
<1>3. CASE cfg.profile = "catalog"
  <2>1. PICK i \in DOMAIN Variants, f \in Files :
          u = [kind |-> "variant", variant |-> Variants[i].name, file |-> f]
    BY <1>3 DEF MeterURLs
  <2>2. u.kind = "variant" /\ <<u.variant, u.file>> \in DOMAIN assets
    BY <1>2, <2>1
  <2>3. Get(u) = Found(assets[<<u.variant, u.file>>])
    BY <1>3, <2>2 DEF Get, Routed, variantBytes
  <2> QED BY <1>3, <2>3 DEF Derives, Found
<1>4. CASE cfg.profile # "catalog"
  <2>1. \/ \E f \in Files : u = [kind |-> "full", file |-> f]
        \/ /\ cfg.profile = "dynamic"
           /\ \E f \in Files, w \in cfg.allowedWidths :
                u = [kind |-> "derived", file |-> f, width |-> w]
    BY <1>4 DEF MeterURLs
  <2>2. CASE \E f \in Files : u = [kind |-> "full", file |-> f]
    <3>1. u.kind = "full" /\ <<"full", u.file>> \in DOMAIN assets
      BY <1>2, <2>2
    <3>2. Get(u) = Found(assets[<<"full", u.file>>])
      BY <1>1, <1>4, <3>1 DEF Get, Routed, variantBytes
    <3> QED BY <3>1, <3>2 DEF Derives, Found
  <2>3. CASE /\ cfg.profile = "dynamic"
             /\ \E f \in Files, w \in cfg.allowedWidths :
                  u = [kind |-> "derived", file |-> f, width |-> w]
    <3>1. u.kind = "derived" /\ u.file \in Files /\ u.width \in cfg.allowedWidths
      BY <2>3
    <3> QED BY <2>3, <3>1 DEF Derives, DerivedAnswer, widthAllowed, Found
  <2> QED BY <2>1, <2>2, <2>3
<1> QED BY <1>3, <1>4

(* A category has an image.                                                *)
LEMMA CategoriesAreServed ==
  ASSUME cfg.profile = "catalog", NEW s \in categories
  PROVE  Get([kind |-> "category", slug |-> s]).status = 200
<1> DEFINE u == [kind |-> "category", slug |-> s]
<1>1. imagesForCategory(s) # {}
  BY DEF categories, imagesForCategory
<1>2. u.kind = "category" /\ u.slug = s /\ Routed(u)
  BY DEF Routed
<1> HIDE DEF u
<1>3. Get(u) = Found(imagesForCategory(s))
  BY <1>1, <1>2 DEF Get, NonEmpty
<1> QED BY <1>3 DEF Found, u

(* What a page of the site links to is there, and each image is on exactly *)
(* one page.                                                               *)
THEOREM SiteIsServed == Spec => []AdvertisedIsServed
<1>1. ASSUME StartInv PROVE AdvertisedIsServed
  <2>1. cfg \in Configs
    BY <1>1 DEF StartInv, StartTypes
  <2> QED BY <1>1, <2>1, URLsAreServed, CategoriesAreServed, PagesAreServed DEF AdvertisedIsServed
<1> QED BY <1>1, StartInvariance, PTL
=============================================================================
