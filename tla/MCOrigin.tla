------------------------------ MODULE MCOrigin ------------------------------
(* Instances of Origin for TLC: three sites like those under origin/sites, *)
(* with three images each.                                                 *)
EXTENDS Origin

ThreeImages == << [file |-> "sea", slug |-> "blue"],
                  [file |-> "sky", slug |-> "blue"],
                  [file |-> "logo", slug |-> ""] >>

(* The logo is narrower than every variant but the thumbnail.              *)
Widths == [f \in Files |-> IF f = "logo" THEN 2 ELSE 9]

Full == [name |-> "full", width |-> 0]
Thumb == [name |-> "thumb", width |-> 1]

Sites ==
  { [profile |-> "gallery", variants |-> <<>>, allowedWidths |-> {}, perPage |-> 0],
    [profile |-> "catalog", variants |-> <<Thumb, Full>>, allowedWidths |-> {}, perPage |-> 2],
    [profile |-> "dynamic", variants |-> <<Full>>, allowedWidths |-> {1, 5}, perPage |-> 0] }

(* All is well; one file is missing, or no image; or two are no images.    *)
Mishaps ==
  { [missing |-> m, broken |-> {}] : m \in {{}, {"sky"}} }
  \cup { [missing |-> {}, broken |-> b] : b \in {{"sea"}, {"sea", "sky"}} }

Asked ==
  { [kind |-> "full", file |-> "sea"],
    [kind |-> "page", page |-> 2],
    [kind |-> "derived", file |-> "sea", width |-> 5],
    [kind |-> "derived", file |-> "logo", width |-> 5],
    [kind |-> "derived", file |-> "sea", width |-> 1],
    [kind |-> "derived", file |-> "sea", width |-> 7],
    [kind |-> "derived", file |-> "nofile", width |-> 5] }
=============================================================================
