------------------------------- MODULE Cache -------------------------------
(***************************************************************************)
(* The class Cache of src/src/Cache.cpp: the list of sources that a        *)
(* remaken process believes are installed.                                 *)
(*                                                                         *)
(* A cache object is a record [loaded, urls] (m_loaded, m_cachedUrls), the *)
(* cache file a record [exists, urls].  The code keeps a list without      *)
(* using its order, so both are sets of urls.  The object lives as long as *)
(* the DependencyManager that owns it; its destructor writes the file.     *)
(***************************************************************************)

\* Cache::Cache: nothing is read when the object is built.
EmptyCache == [loaded |-> FALSE, urls |-> {}]

\* The file .remaken-cache before anything wrote it.
NoCacheFile == [exists |-> FALSE, urls |-> {}]

\* Cache::load: read once, and only if the file exists; what the object
\* already holds is kept.  A missing file leaves m_loaded false.
load(cache, file) ==
  IF ~cache.loaded /\ file.exists
  THEN [loaded |-> TRUE, urls |-> cache.urls \union file.urls]
  ELSE cache

\* Cache::contains, which loads first (the caller keeps the loaded object).
contains(cache, file, url) == url \in load(cache, file).urls

\* Cache::add.
add(cache, file, url) ==
  [load(cache, file) EXCEPT !.urls = @ \union {url}]

\* Cache::~Cache and Cache::write, first half: ofstream(ios::out) creates or
\* truncates the file.  A missing remaken root makes the open fail silently.
truncate(file, rootExists) ==
  IF rootExists THEN [exists |-> TRUE, urls |-> {}] ELSE file

\* Cache::write, second half: the object's urls are written from offset 0 of
\* the truncated file, over what another process may have written there
\* meanwhile; kept is what survives of that process's lines, whole or torn.
write(cache, file, kept) ==
  IF file.exists THEN [file EXCEPT !.urls = cache.urls \union kept] ELSE file
============================================================================
