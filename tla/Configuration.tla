--------------------------- MODULE Configuration ---------------------------
(***************************************************************************)
(* From a configuration to an open database: findMountConfig,              *)
(* loadMountConfig and normalize of packages/core/src/config.ts,           *)
(* mountsqli, mountsqliFull and buildDriver of packages/core/src/index.ts, *)
(* and the command line's loadConfig and makeDriver (packages/cli). Several *)
(* processes, each with its own directory, share the files, which change.  *)
(***************************************************************************)
EXTENDS Integers, FiniteSets, Sequences, SequencesExt

CONSTANTS
  Programs,     \* the processes
  Parent,       \* directory -> its parent; the root is its own
  FileNames,    \* the file names looked for, best first (CONFIG_NAMES)
  Layouts,      \* the files there may be at first: <<directory, name>> -> contents
  FileContents, \* what may be written into a file
  Inline,       \* the lists of tables, not empty, that a program may give
  Script,       \* the directory of the programs
  Overrides,    \* the urls a program may ask for
  Drivers,      \* the drivers a program may have imported, besides SQLite's
  MaxEdits

None == "none"
Dirs == DOMAIN Parent
\* A url is "none", "memory", "relative" or "absolute".
Urls == {None, "memory", "relative", "absolute"}

\* The directories are a tree, and a file has one of the urls.
ASSUME ConfigurationConstantsOK ==
  /\ IsFiniteSet(Dirs) /\ Parent \in [Dirs -> Dirs] /\ Script \in Dirs
  /\ \E depth \in [Dirs -> 0 .. Cardinality(Dirs)] :
       \A d \in Dirs : Parent[d] # d => depth[Parent[d]] < depth[d]
  /\ FileNames \in Seq(ToSet(FileNames)) /\ Overrides \subseteq Urls /\ MaxEdits \in Nat
  /\ \A c \in FileContents : c.url \in Urls
  /\ \A layout \in Layouts : /\ DOMAIN layout \subseteq Dirs \X ToSet(FileNames)
                             /\ \A f \in DOMAIN layout : layout[f].url \in Urls

VARIABLES
  files,       \* <<directory, name>> -> contents, for the files there are
  modules,     \* program -> file -> the contents it imported (the loader's cache)
  call,        \* program -> the call under way, or None
  handle,      \* program -> what its last call opened, "refused", or None
  edits
configVars == <<files, modules, call, handle, edits>>

NoCall == [way |-> None]
NoHandle == [way |-> None]
Refused == [way |-> "refused"]

ConfigurationInit ==
  /\ files \in Layouts /\ edits = 0
  /\ modules = [p \in Programs |-> << >>]
  /\ call = [p \in Programs |-> NoCall] /\ handle = [p \in Programs |-> NoHandle]

-----------------------------------------------------------------------------
\* The directories from d up to the root.
Upward[d \in Dirs] == IF Parent[d] = d THEN <<d>> ELSE <<d>> \o Upward[Parent[d]]

\* findMountConfig: up from the working directory, then up from the script.
Candidates(cwd) ==
  LET places == Upward[cwd] \o Upward[Script]
  IN  [i \in 1 .. Len(places) * Len(FileNames) |->
         <<places[((i - 1) \div Len(FileNames)) + 1], FileNames[((i - 1) % Len(FileNames)) + 1]>>]
Found(cwd) ==
  LET c == Candidates(cwd)
  IN  c[CHOOSE i \in DOMAIN c : c[i] \in DOMAIN files
                              /\ \A k \in 1 .. i - 1 : c[k] \notin DOMAIN files]
IsFound(cwd) == ToSet(Candidates(cwd)) \cap DOMAIN files # {}

\* collectSchema: of several tables with one name the first stays.
Collected(tables) ==
  {tables[i] : i \in {i \in DOMAIN tables : \A k \in 1 .. i - 1 : tables[k][1] # tables[i][1]}}

\* normalize: the tables listed, or else those of the schema's folder. It
\* keeps neither rls nor anything else it does not know.
Listed(c) == IF c.tables # << >> THEN ToSet(c.tables) ELSE Collected(c.schema)
Conflicting(tables) == \E s, t \in tables : s[1] = t[1] /\ s # t
Usable(c) == Listed(c) # {} /\ ~Conflicting(Listed(c))

\* resolveConfigUrl: relative to the directory of the file. What has no url
\* is in memory.
Resolve(url, dir, cwd) ==
  CASE url \in {None, "memory"} -> <<"memory">>
    [] url = "relative" -> <<"file", dir>>
    [] OTHER -> <<url>>

\* What SQLite opens for an url that nobody resolved.
Unresolved(url, cwd) == Resolve(url, cwd, cwd)

\* buildDriver. A driver of the registry is made by its package, which knows
\* DATABASE_URL and not the configuration; makeDriver gives it the url.
Opened(c, driver, place) ==
  CASE driver \in {None, "sqlite"} -> place
    [] c.way = "cli" -> place
    [] OTHER -> <<"environment">>
Registered(c, driver) ==
  \/ driver \in {None, "sqlite"}
  \/ IF c.way = "cli" THEN driver \in Drivers ELSE driver \in c.imported

Or(override, value) == IF override = None THEN value ELSE override

-----------------------------------------------------------------------------
\* mountsqli or mountsqliFull with tables: the argument is the configuration
\* as it stands. Nobody normalizes it, so that a table may be in it twice;
\* its url is the driver's to understand; and its driver may not be there.
CallInline(p) ==
  /\ call[p] = NoCall
  /\ \/ \E cwd \in Dirs, url \in Overrides, list \in Inline, rls \in BOOLEAN, driver \in {"sqlite"} \cup Drivers :
          handle' = [handle EXCEPT ![p] =
            [way |-> "inline", file |-> << >>, home |-> FALSE, url |-> url, driver |-> driver,
             database |-> Opened([way |-> "inline"], driver, Unresolved(url, cwd)),
             tables |-> ToSet(list), rls |-> rls]]
     \/ handle' = [handle EXCEPT ![p] = Refused]
  /\ UNCHANGED <<files, modules, call, edits>>

\* mountsqli() with an override of the url, mountsqli(await loadMountConfig())
\* (config.ts:25), or a command: find the file.
CallWithFile(p) ==
  /\ call[p] = NoCall
  /\ \E cwd \in Dirs, way \in {"app", "loaded", "cli"}, url \in Overrides, drivers \in SUBSET Drivers :
       /\ way # "app" => url = None
       /\ way = "cli" => drivers = {}
       /\ IF IsFound(cwd)
          THEN /\ call' = [call EXCEPT ![p] = [way |-> way, cwd |-> cwd, url |-> url,
                             imported |-> drivers, file |-> Found(cwd), content |-> << >>]]
               /\ handle' = [handle EXCEPT ![p] = NoHandle]
          ELSE handle' = [handle EXCEPT ![p] = Refused] /\ call' = call
  /\ UNCHANGED <<files, modules, edits>>

\* loadMountConfig waits for the import, and a module that was imported
\* before is not read again; a JSON file is. Either may fail.
Load(p) ==
  /\ call[p] # NoCall /\ call[p].content = << >>
  /\ LET f == call[p].file
         known == f \in DOMAIN modules[p]
         c == IF known THEN modules[p][f] ELSE files[f]
     IN  \/ /\ known \/ f \in DOMAIN files
            /\ call' = [call EXCEPT ![p].content = <<c>>]
            /\ modules' = IF known \/ c.json THEN modules
                          ELSE [modules EXCEPT ![p] = [g \in DOMAIN @ \cup {f} |->
                                                         IF g = f THEN c ELSE @[g]]]
            /\ handle' = handle
         \/ /\ ~known
            /\ call' = [call EXCEPT ![p] = NoCall] /\ modules' = modules
            /\ handle' = [handle EXCEPT ![p] = Refused]
  /\ UNCHANGED <<files, edits>>

\* The rest: normalize (which may wait for the schema's modules), merge, open.
\* loadMountConfig and the command line keep the url as it stands in the file.
OpenDb(p) ==
  /\ call[p] # NoCall /\ call[p].content # << >>
  /\ LET k == call[p]
         c == k.content[1]
         url == Or(k.url, c.url)
         place == IF k.way = "app" THEN Resolve(url, k.file[1], k.cwd)
                  ELSE Unresolved(url, k.cwd)
     IN  handle' = [handle EXCEPT ![p] =
           IF Usable(c) /\ Registered(k, c.driver)
           THEN [way |-> k.way, file |-> k.file, url |-> url,
                 home |-> k.way # "app" /\ k.cwd = k.file[1],
                 driver |-> Or(c.driver, "sqlite"), database |-> Opened(k, c.driver, place),
                 tables |-> Listed(c), rls |-> FALSE]
           ELSE Refused]
  /\ call' = [call EXCEPT ![p] = NoCall]
  /\ UNCHANGED <<files, modules, edits>>

\* The program ends.
Leave(p) ==
  /\ handle[p] # NoHandle
  /\ call' = [call EXCEPT ![p] = NoCall] /\ handle' = [handle EXCEPT ![p] = NoHandle]
  /\ modules' = [modules EXCEPT ![p] = << >>]
  /\ UNCHANGED <<files, edits>>

\* Somebody writes or deletes a file.
Edit ==
  /\ edits < MaxEdits /\ edits' = edits + 1
  /\ \/ \E f \in Dirs \X ToSet(FileNames), c \in FileContents :
          files' = [g \in DOMAIN files \cup {f} |-> IF g = f THEN c ELSE files[g]]
     \/ \E f \in DOMAIN files : files' = [g \in DOMAIN files \ {f} |-> files[g]]
  /\ UNCHANGED <<modules, call, handle>>

ConfigurationNext ==
  \/ \E p \in Programs : CallInline(p) \/ CallWithFile(p) \/ Load(p) \/ OpenDb(p) \/ Leave(p)
  \/ Edit

ConfigurationSpec == ConfigurationInit /\ [][ConfigurationNext]_configVars

-----------------------------------------------------------------------------
IsOpen(p) == handle[p] \notin {NoHandle, Refused}
FromFile(p) == IsOpen(p) /\ handle[p].file # << >>

ConfigurationTypeOK ==
  /\ DOMAIN files \subseteq Dirs \X ToSet(FileNames) /\ edits \in 0 .. MaxEdits
  /\ \A p \in Programs :
       /\ call[p] # NoCall => call[p].cwd \in Dirs /\ call[p].file[1] \in Dirs
       /\ IsOpen(p) => handle[p].home \in BOOLEAN /\ handle[p].url \in Urls

\* Where mountsqli() was called does not matter; where the others were does.
AtHome(h) == h.way = "app" \/ h.home

(* A relative url is the SQLite database beside the file it was read with, *)
(* wherever the program was started and whatever was done to the files     *)
(* since, so that all who found the same file open the same database       *)
(* (config.ts:172 "regardless of the process cwd"); a command, and a       *)
(* program that hands over what loadMountConfig() gave it, do so only if   *)
(* run where the file is (packages/cli/src/lib.ts:33, config.ts:25). No    *)
(* table of a file is open with two definitions (of a list given inline it *)
(* may be). What the rows are guarded by survives only in a configuration  *)
(* given inline.                                                           *)
OpensConfigured ==
  /\ \A p \in Programs :
       FromFile(p) /\ handle[p].url = "relative" /\ handle[p].driver = "sqlite" /\ AtHome(handle[p]) =>
         handle[p].database = <<"file", handle[p].file[1]>>
  /\ \A p \in Programs : FromFile(p) => ~Conflicting(handle[p].tables) /\ ~handle[p].rls
=============================================================================
