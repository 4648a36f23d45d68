SPECIFICATION Spec
CONSTANTS
  NPROC = 6
  NFILE = 8
  NOFILE = 5
  NPIPE = 2
  PIPESIZE = 2
  UINT = 4
  MAXARGS = 5
  CATBUF = 3
  GREPBUF = 5
  WCBUF = 1
  Spelling <- MCSpelling
  Scripts <- MCScripts
  Mortal <- MCMortal
  Disk <- MCDisk
  Dirs <- MCDirs
INVARIANTS PipesSound ParsesGrammar MeansWhatItSays
PROPERTY CommandsEnd
