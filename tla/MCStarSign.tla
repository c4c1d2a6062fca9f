---------------------------- MODULE MCStarSign ----------------------------
(* StarSign for TLC.  Certificate directories 4302 and 4303 hold a file of *)
(* the same id, the application directory holds 5032.                      *)
EXTENDS StarSignAlone

CardDirs  == {MF, DF5031, "4302", "4303"}
CardFiles == {<<MF, "5032">>, <<DF5031, "5032">>, <<"4302", "0114">>,
              <<"4302", "05A0">>, <<"4303", "05A0">>}

TokenInfo   == <<MF, "5032">>
Application == <<MF, DF5031>>
Walk(d, f)    == <<MF, d, f>>
Virtual(d, f) == <<MF, PLACEHOLDER, d, f>>

(* The paths of the static profile, and the application directory.         *)
ProfilePaths == {TokenInfo, Application, Walk("4302", "0114"), Walk("4302", "05A0"),
                 Walk("4303", "05A0")}

(* Virtual paths, one of which names nothing, and the directories above.   *)
VirtualPaths == {Virtual("4302", "0114"), Virtual("4302", "05A0"),
                 Virtual("4303", "05A0"), Virtual("4303", "0114"), Application, <<MF>>}

(* All of these, and some more that name nothing.                          *)
AllPaths == ProfilePaths \cup VirtualPaths \cup
  {<<MF, "2F00">>, <<"4302">>, <<MF, PLACEHOLDER, "4302">>}

(* Virtual paths beside one that names nothing.                            *)
ProbePaths == {Virtual("4302", "05A0"), <<MF, "2F00">>}
===========================================================================
