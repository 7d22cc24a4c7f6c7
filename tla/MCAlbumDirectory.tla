-------------------------- MODULE MCAlbumDirectory --------------------------
(* AlbumDirectory for TLC. *)
EXTENDS AlbumDirectory

(* Two days of one month, one of another year, and folders to be skipped. *)
MCDayFolder == {<< 2020, 5, 1 >>, << 2020, 5, 2 >>, << 2021, 12, 31 >>,
                << 2020, 13, 1 >>, << 20000, 1, 1 >>}

Official == [length |-> 53, month |-> 5, pairs |-> 16, word |-> 0, x |-> FALSE, ext |-> ".jpg"]

MCName == {
  Official,
  [Official EXCEPT !.length = 54, !.word = 1, !.x = TRUE, !.ext = ".mp4"],
  \* the names GetFileName makes of a screenshot and of an extra one: a digit short
  [Official EXCEPT !.length = 52],
  [Official EXCEPT !.pairs = 15]}

MCFlags == {ContentType, {"Screenshot"}}

=============================================================================
