CONSTANTS
  Handle = {h1, h2}
  Root <- MCRoot
  BootSectors <- MCBootSectors
  Pairs = 5
  PairsRead = 3
  FAT12_SECT_SIZE = 2
  FAT12_SECT_PER_PAGE = 2
  FAT_SECTORS = 4
  FAT12_CACHE_SECTORS = 15
  DIR_ENTRY_SIZE = 1
  FIRST_SECTORS = 2
  DEV_FILE_FIRST_LVL_PAGES = 1
  Wanted <- MCWanted
  Sizes = {0, 1, 2, 3}
  Positions = {0, 1, 3, 6}
  Word = 16
  Null = Null
SPECIFICATION FilesSpec
SYMMETRY Symmetry
INVARIANT ReadsFile
CHECK_DEADLOCK FALSE
