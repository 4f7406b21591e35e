CONSTANTS
  INOSPEREXT = 2
  EXTSPERIAG = 2
  PAGE = 2
  BSIZE = 2
  IagMap <- MCIagMap
  InodeExtent <- MCInodeExtent
  NoBlock = NoBlock
  StoreSize = 14
  File <- MCFile
  Inums = {1, 2, 5, 6, 9}
  MaxPage = 4
  Zero = Zero
SPECIFICATION Spec
INVARIANTS TypeOK RightInode PageContents MappedPageRead NoWriteBack
