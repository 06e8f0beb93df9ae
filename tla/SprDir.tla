------------------------------- MODULE SprDir -------------------------------
(***************************************************************************)
(* The directory, glob and information functions of lib/spr_filesys.c, as  *)
(* one thread calls them while another process removes files.  What the    *)
(* functions return depends on errno (the last error of a Win32 thread),   *)
(* which none of them resets: it keeps the error of any earlier call.      *)
(*                                                                         *)
(* Three systems: "dtype" has d_type in a directory entry, "stat" asks     *)
(* stat() for every entry, "win32" uses FindFirstFile.  Names stand for    *)
(* paths; the system gives those that exist in the order of Listing.       *)
(*                                                                         *)
(* Paths are put into buffers of SPR_MAX_PATH_LEN without a look at their  *)
(* length, or with a wrong one: the model stops where one is written over  *)
(* its end.  A Win32 path that is not UTF-8 is converted in part, and what *)
(* the system is asked about is what happened to be on the stack behind.   *)
(***************************************************************************)
EXTENDS Naturals, Sequences, FiniteSets, SequencesExt

CONSTANTS
  Systems,
  Names,       \* the files that there may be
  Listing,     \* the order in which the system lists a set of files
  Kinds,       \* the kinds of files there are
  kind,        \* the kind of each file: "FILE", "DIR", "LINK" (to a file), ...
  Long,        \* names that make a path of more than SPR_MAX_PATH_LEN bytes
  NotUtf8,     \* names that are not UTF-8, as FindNextFile gives them
  MaxPath,     \* SPR_MAX_PATH_LEN
  DirLens,     \* the lengths of the paths that spr_dir_open is given
  None,        \* no name
  MaxOpens     \* bound on the streams that are opened

ASSUME DirAssumption ==
  /\ Systems \subseteq {"dtype", "stat", "win32"}
  /\ IsFiniteSet(Names) /\ None \notin Names
  /\ \A S \in SUBSET Names : Listing[S] \in SetToSeqs(S)
  /\ {"FILE", "DIR"} \subseteq Kinds /\ kind \in [Names -> Kinds] 
  /\ Long \subseteq Names /\ NotUtf8 \subseteq Names
  /\ MaxPath \in Nat /\ DirLens \subseteq Nat
  /\ MaxOpens \in Nat \ {0}

VARIABLES
  system,
  present,    \* the files that have not been removed
  errno,      \* errno or GetLastError()
  dir,        \* spr_dir_t and its system stream
  glob,       \* spr_glob_t and its system stream
  info,       \* what the call just made told of a file
  opens,
  failed      \* a system call of the thread has failed

dirVars == <<system, present, errno, dir, glob, info, opens, failed>>

Types  == Kinds \cup {"UNKFILE"}
Errors == {"noent", "io", "nomore"}

(* A stream: all the names it is about, those the system has still to      *)
(* give, those reported, the current one, its type, and what the last call *)
(* returned.  next and done are last_res and done of a Win32 glob; sys says *)
(* whether the system calls of the last call have succeeded.               *)
Fresh(open, all, left, ret) ==
  [open |-> open, all |-> all, left |-> left, told |-> <<>>, cur |-> None,
   type |-> "UNKFILE", ret |-> ret, next |-> None, done |-> FALSE, sys |-> TRUE]

Closed(ret)     == Fresh(FALSE, <<>>, <<>>, ret)
Opened(s, left) == Fresh(TRUE, s, left, "OK")

NoInfo == [ret |-> "none", conv |-> TRUE, right |-> TRUE, sys |-> TRUE]

(* A buffer has been written over its end.                                 *)
Overflowed == "overflow" \in {dir.ret, info.ret}

Existing == Listing[present]

DirInit ==
  /\ system \in Systems
  /\ present \in SUBSET Names
  /\ errno = "ok" /\ failed = FALSE /\ opens = 0
  /\ dir = Closed("none") /\ glob = Closed("none")
  /\ info = NoInfo

(* A system call fails with error e.                                       *)
Fails(e) == errno' = e /\ failed' = TRUE
Succeeds == UNCHANGED <<errno, failed>>

(* The type of a file as spr_stat_get_file_type finds it in what stat() or *)
(* the file attributes say: stat() follows links, Win32 knows directories. *)
spr_stat_get_file_type(n) ==
  IF kind[n] = "LINK" \/ (system = "win32" /\ kind[n] # "DIR") THEN "FILE" ELSE kind[n]

(* What it finds in a structure that nobody has filled in.                 *)
AnyType == IF system = "win32" THEN {"FILE", "DIR"} ELSE Types

(* spr_path_to_wchar converts the path; its result is not looked at.       *)
Converted(n) == system # "win32" \/ n \notin NotUtf8

(* Positions of s that the system may give next: files that were removed   *)
(* after the stream was opened may be missing in it.                       *)
Upcoming(s) == {k \in DOMAIN s : \A j \in 1..(k - 1) : s[j] \notin present}
AtEnd(s)    == \A j \in DOMAIN s : s[j] \notin present

-----------------------------------------------------------------------------

(* On Win32 spr_dir_open adds three characters to the path in a buffer of  *)
(* MaxPath + 3, and refuses only what does not fit without them.           *)
Fits(len) == system = "win32" => len <= MaxPath

(* FindFirstFile takes the first entry off the stream, "." except in a     *)
(* root directory.                                                         *)
dir_opens ==
  \/ /\ system = "win32" => Existing # <<>>
     /\ dir' = Opened(Existing, IF system = "win32" THEN Tail(Existing) ELSE Existing)
     /\ Succeeds
  \/ Fails("noent") /\ dir' = Closed("noent")

spr_dir_open ==
  /\ ~ dir.open /\ opens < MaxOpens /\ opens' = opens + 1
  /\ \E len \in DirLens :
       \/ Fits(len) /\ dir_opens
       \/ ~ Fits(len) /\ len >= MaxPath + 3 /\ dir' = Closed("E2BIG") /\ Succeeds
       \/ ~ Fits(len) /\ len < MaxPath + 3 /\ dir' = Closed("overflow") /\ Succeeds
  /\ info' = NoInfo /\ UNCHANGED <<system, present, glob>>

DirReports(k, t, sys) ==
  dir' = [dir EXCEPT !.left = SubSeq(@, k + 1, Len(@)), !.told = Append(@, dir.left[k]),
                     !.cur = dir.left[k], !.type = t, !.ret = "OK",
                     !.sys = sys]

(* stat() or GetFileAttributesEx on entry k, whose result spr_dir_read     *)
(* does not look at: a structure that was not filled in has any type.      *)
Stat(k) ==
  \/ /\ dir.left[k] \in present /\ Converted(dir.left[k]) /\ Succeeds
     /\ DirReports(k, spr_stat_get_file_type(dir.left[k]), TRUE)
  \/ /\ ~ Converted(dir.left[k]) /\ Succeeds
     /\ \E t \in AnyType : DirReports(k, t, TRUE)
  \/ Fails("noent") /\ \E t \in AnyType : DirReports(k, t, FALSE)

(* Before that, the path of the entry is put together in fullpath.         *)
stat_entry(k) ==
  IF dir.left[k] \in Long THEN dir' = [dir EXCEPT !.ret = "overflow"] /\ Succeeds ELSE Stat(k)

(* Mutant: the type is that of the entry before.                           *)
DirEntryOldType(k) == DirReports(k, dir.type, TRUE) /\ Succeeds

(* spr_dir_read finds entry k of what is left.                             *)
dir_entry(k) ==
  IF system = "dtype"
  THEN Succeeds /\ \E t \in {kind[dir.left[k]], "UNKFILE"} : DirReports(k, t, TRUE)
  ELSE stat_entry(k)

(* It finds none: readdir leaves errno alone, FindNextFile sets it.        *)
dir_end ==
  /\ AtEnd(dir.left)
  /\ errno' = IF system = "win32" THEN "nomore" ELSE errno
  /\ dir' = [dir EXCEPT !.left = <<>>, !.cur = None, !.sys = TRUE,
                        !.ret = IF errno' \in {"ok", "nomore"} THEN "DONE" ELSE errno']
  /\ UNCHANGED failed

(* Mutant: every end of the stream is DONE.                                *)
DirFailsAsDone == Fails("io") /\ dir' = [dir EXCEPT !.cur = None, !.sys = FALSE, !.ret = "DONE"]

(* The system fails to give an entry.                                      *)
dir_fails == Fails("io") /\ dir' = [dir EXCEPT !.cur = None, !.sys = FALSE, !.ret = "io"]

spr_dir_read ==
  /\ dir.open
  /\ (\E k \in Upcoming(dir.left) : dir_entry(k)) \/ dir_end \/ dir_fails
  /\ info' = NoInfo /\ UNCHANGED <<system, present, glob, opens>>

spr_dir_close ==
  /\ dir.open /\ dir' = Closed("none")
  /\ info' = NoInfo /\ UNCHANGED <<system, present, errno, glob, opens, failed>>

-----------------------------------------------------------------------------

(* spr_glob_open on POSIX: glob() collects all names at once.  Without a   *)
(* match it need not set errno, so that what is returned is the error of   *)
(* an earlier call, or SPR_OK.                                             *)
glob_collect ==
  /\ system # "win32"
  /\ \/ Existing # <<>> /\ glob' = Opened(Existing, Existing) /\ Succeeds
     \/ /\ Existing = <<>> /\ Succeeds
        /\ glob' = IF errno = "ok" THEN Opened(<<>>, <<>>) ELSE Closed(errno)
     \/ Fails("io") /\ glob' = Closed("io")

(* On Win32: FindFirstFile, and then a look at the pattern, which must     *)
(* have a backslash; next is the first name already.                       *)
glob_find_first ==
  /\ system = "win32"
  /\ \/ /\ Existing # <<>> /\ Succeeds
        /\ \/ glob' = [Opened(Existing, Tail(Existing)) EXCEPT !.next = Head(Existing)]
           \/ glob' = Closed("ABS_PATH")
     \/ Fails("noent") /\ glob' = Closed("FAILED")

spr_glob_open ==
  /\ ~ glob.open /\ opens < MaxOpens /\ opens' = opens + 1
  /\ glob_collect \/ glob_find_first
  /\ info' = NoInfo /\ UNCHANGED <<system, present, dir>>

(* Mutant: the first name is skipped.                                      *)
GlobFromOne ==
  /\ system # "win32"
  /\ glob' = IF Len(glob.told) + 1 >= Len(glob.all) THEN [glob EXCEPT !.ret = "DONE"]
             ELSE [glob EXCEPT !.told = Append(@, glob.all[Len(@) + 2]), !.ret = "OK"]
  /\ Succeeds

(* spr_glob_read on POSIX: last is the number of names read.               *)
glob_next ==
  /\ system # "win32"
  /\ glob' = IF glob.left = <<>> THEN [glob EXCEPT !.ret = "DONE"]
             ELSE [glob EXCEPT !.told = Append(@, Head(glob.left)), !.left = Tail(@), !.ret = "OK"]
  /\ Succeeds

(* Mutant: done is not set at the end.                                     *)
GlobNeverDone ==
  /\ system = "win32" /\ glob' = [glob EXCEPT !.told = <<>>, !.ret = "OK"] /\ Succeeds

(* On Win32: the name found before is reported, and the next one is looked *)
(* for.  When there is one, the error of an earlier call ends the glob,    *)
(* and the name that was written to the buffer is returned with it.        *)
glob_find_next ==
  /\ system = "win32" /\ ~ glob.done /\ glob.next \notin Long
  /\ \/ \E k \in Upcoming(glob.left) :
          /\ IF errno \in {"ok", "nomore"}
             THEN glob' = [glob EXCEPT !.told = Append(@, glob.next), !.ret = "OK",
                                       !.next = glob.left[k],
                                       !.left = SubSeq(@, k + 1, Len(@))]
             ELSE glob' = [glob EXCEPT !.done = TRUE, !.ret = errno]
          /\ Succeeds
     \/ /\ \/ AtEnd(glob.left) /\ errno' = "nomore" /\ UNCHANGED failed
           \/ Fails("io")
        /\ glob' = [glob EXCEPT !.told = Append(@, glob.next), !.done = TRUE, !.ret = "OK"]

glob_find_stops ==
  /\ system = "win32" /\ Succeeds
  /\ \/ glob.done /\ glob' = [glob EXCEPT !.ret = "DONE"]
     \/ ~ glob.done /\ glob.next \in Long /\ glob' = [glob EXCEPT !.ret = "LONG_PATH"]

spr_glob_read ==
  /\ glob.open
  /\ glob_next \/ glob_find_next \/ glob_find_stops
  /\ info' = NoInfo /\ UNCHANGED <<system, present, dir, opens>>

spr_glob_close ==
  /\ glob.open /\ glob' = Closed("none")
  /\ info' = NoInfo /\ UNCHANGED <<system, present, errno, dir, opens, failed>>

-----------------------------------------------------------------------------

(* spr_file_info* returns ret, and t as the type of n; right is whether    *)
(* that is its type, conv whether the path was converted if one was given. *)
Informs(n, conv, ret, t, sys) ==
  info' = [ret |-> ret, conv |-> conv, right |-> (t = spr_stat_get_file_type(n)), sys |-> sys]

(* On Win32 spr_path_to_wchar is told twice the room that wpath has.       *)
spr_file_info_by_path(n) ==
  /\ \/ /\ n \in present /\ Converted(n) /\ Succeeds
        /\ Informs(n, TRUE, "OK", spr_stat_get_file_type(n), TRUE)
     \/ /\ ~ Converted(n) /\ Succeeds
        /\ \E t \in AnyType : Informs(n, FALSE, "OK", t, TRUE)
     \/ Fails("noent") /\ Informs(n, TRUE, "noent", "UNKFILE", FALSE)
     \/ /\ system = "win32" /\ n \in Long /\ Succeeds
        /\ info' = [NoInfo EXCEPT !.ret = "overflow"]
  /\ UNCHANGED <<system, present, dir, glob, opens>>

(* spr_file_info of a file that is open.  GetFileInformationByHandle never *)
(* returns -1, so that its failure goes unnoticed on Win32.                *)
spr_file_info(n) ==
  /\ \/ Succeeds /\ Informs(n, TRUE, "OK", spr_stat_get_file_type(n), TRUE)
     \/ /\ Fails("io")
        /\ IF system = "win32" THEN \E t \in AnyType : Informs(n, TRUE, "OK", t, FALSE)
           ELSE Informs(n, TRUE, "io", "UNKFILE", FALSE)
  /\ UNCHANGED <<system, present, dir, glob, opens>>

(* Another process removes a file.                                         *)
Removed(n) ==
  /\ n \in present /\ present' = present \ {n}
  /\ info' = NoInfo /\ UNCHANGED <<system, errno, dir, glob, opens, failed>>

DirNext ==
  /\ ~ Overflowed
  /\ \/ spr_dir_open \/ spr_dir_read \/ spr_dir_close
     \/ spr_glob_open \/ spr_glob_read \/ spr_glob_close
     \/ \E n \in Names : spr_file_info_by_path(n) \/ spr_file_info(n) \/ Removed(n)

DirSpec == DirInit /\ [][DirNext]_dirVars

(* A caller that opens a stream goes on reading it.                        *)
DirFairSpec ==
  /\ DirSpec
  /\ WF_dirVars(~ Overflowed /\ spr_dir_read) /\ WF_dirVars(~ Overflowed /\ spr_glob_read)

-----------------------------------------------------------------------------

(***************************************************************************)
(* Every variable has its type.                                            *)
(***************************************************************************)
DirTypeOK ==
  /\ system \in Systems /\ present \subseteq Names
  /\ errno \in {"ok"} \cup Errors /\ failed \in BOOLEAN
  /\ opens \in 0..MaxOpens
  /\ \A s \in {dir, glob} :
       /\ {s.open, s.done, s.sys} \subseteq BOOLEAN /\ s.type \in Types
       /\ {s.cur, s.next} \subseteq Names \cup {None}
       /\ {s.all, s.left, s.told} \subseteq Seq(Names)
       /\ s.ret \in {"none", "OK", "DONE", "FAILED", "ABS_PATH", "LONG_PATH", "E2BIG",
                    "overflow", "noent", "io"}
  /\ {info.right, info.conv, info.sys} \subseteq BOOLEAN
  /\ info.ret \in {"none", "OK", "noent", "io", "overflow"}

(***************************************************************************)
(* What spr_dir_read reports are names of the directory, none twice, in    *)
(* its order; and when it says DONE, every file that is there still has    *)
(* been reported, except for the one that the Win32 spr_dir_open found.    *)
(***************************************************************************)
DirComplete ==
  /\ \A i, j \in DOMAIN dir.told : i < j => \E k, l \in DOMAIN dir.all :
       k < l /\ dir.all[k] = dir.told[i] /\ dir.all[l] = dir.told[j]
  /\ dir.open /\ dir.ret = "DONE" =>
       \A k \in DOMAIN dir.all :
         dir.all[k] \in present \cap Range(dir.told) \/ dir.all[k] \notin present
           \/ (system = "win32" /\ k = 1)

(***************************************************************************)
(* The error that ends a directory is one that a system call has reported: *)
(* on Win32 the call that reads the directory, on POSIX any earlier call   *)
(* of the thread, so that a thread whose calls have all succeeded sees     *)
(* every directory end with DONE.                                          *)
(***************************************************************************)
EndExplained ==
  dir.open /\ dir.ret \in Errors => IF system = "win32" THEN ~ dir.sys ELSE failed

(***************************************************************************)
(* The type of the current entry is the type of that file; d_type tells    *)
(* it, or that it is unknown, in any case.  The exceptions are two: stat() *)
(* or GetFileAttributesEx has failed for the entry, which spr_dir_read     *)
(* does not notice, or its path is no UTF-8 on Win32, and the attributes   *)
(* are those of another path.  Any type is told then.                      *)
(***************************************************************************)
TypeTrue ==
  dir.cur # None =>
    IF system = "dtype" THEN dir.type \in {kind[dir.cur], "UNKFILE"}
    ELSE ~ dir.sys \/ ~ Converted(dir.cur) \/ dir.type = spr_stat_get_file_type(dir.cur)

(***************************************************************************)
(* What spr_glob_read reports are the first names of those that matched,   *)
(* and when it says DONE they are all of them.  On Win32 files removed in  *)
(* the meantime may be missing, and nothing is promised once a call of the *)
(* thread has failed.                                                      *)
(***************************************************************************)
GlobComplete ==
  glob.open =>
    /\ system # "win32" => IsPrefix(glob.told, glob.all)
    /\ glob.ret = "DONE" =>
         IF system # "win32" THEN glob.told = glob.all
         ELSE failed \/ Range(glob.all) \cap present \subseteq Range(glob.told)

(***************************************************************************)
(* Information that is told as OK is true on POSIX.  On Win32 there are    *)
(* two exceptions: GetFileInformationByHandle has failed, which            *)
(* spr_file_info does not notice, or the path that spr_file_info_by_path   *)
(* was given is no UTF-8, and the information is that of another path.     *)
(***************************************************************************)
InfoTrue ==
  info.ret = "OK" =>
    \/ info.right
    \/ system = "win32" /\ ~ (info.sys /\ info.conv)

(***************************************************************************)
(* A caller that reads a stream until it is told anything but OK comes to  *)
(* an end, with a directory and with a glob, unless a buffer overflows.    *)
(***************************************************************************)
StreamsEnd ==
  /\ dir.open ~> (~ dir.open \/ dir.ret # "OK" \/ Overflowed)
  /\ glob.open ~> (~ glob.open \/ glob.ret # "OK" \/ Overflowed)

(***************************************************************************)
(* A directory stream reports every file once and ends as it should: with  *)
(* DONE when it is complete, with an error only where there was one.       *)
(***************************************************************************)
DirRight == DirTypeOK /\ DirComplete /\ EndExplained

(***************************************************************************)
(* What is told of a file is true, in a directory stream, by spr_file_info *)
(* and by spr_file_info_by_path, but for failed calls that go unnoticed    *)
(* and Win32 paths that are not converted, as stated above.                *)
(***************************************************************************)
FilesTrue == TypeTrue /\ InfoTrue
=============================================================================
