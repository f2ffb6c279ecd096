--------------------------- MODULE MCStationRead ---------------------------
(* Small instances of StationRead for TLC. *)
EXTENDS StationRead, TLC

Descriptor(kind, tmplat, nt, gt, length, span, size) ==
  [kind |-> kind, tmplat |-> tmplat, nt |-> nt, gt |-> gt, length |-> length,
   span |-> span, size |-> size]

(* A plain file per member, members of different lengths; GRIB1 files per  *)
(* member and time; GRIB2 files per time; a GRIB2 file with two members,   *)
(* of larger grids; files per member with grids larger than the cache;     *)
(* stations.                                                               *)
MixedLayouts == <<
  Descriptor("plain", 2, 2, <<1, 2>>, <<2, 1>>, 1, 1),
  Descriptor("grib1", 3, 3, <<1, 2>>, <<3, 2>>, 2, 1),
  Descriptor("grib2", 1, 2, <<1>>, <<2>>, 1, 1),
  Descriptor("grib2", 0, 2, <<1, 1>>, <<2, 2>>, 1, 2),
  Descriptor("grib2", 2, 1, <<1, 1>>, <<1, 1>>, 1, 3),
  Descriptor("station", 1, 2, <<1>>, <<2>>, 1, 1) >>

StationLayouts == << Descriptor("station", 1, 3, <<1>>, <<3>>, 2, 1) >>
=============================================================================
