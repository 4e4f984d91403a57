CONSTANTS
  Names <- MCNames
  Hidden <- MCHidden
  Unowned <- MCUnowned
  Size <- MCSize
  BatchSize = 3
  MaxChanges = 2
SPECIFICATION Spec

  
  
PROPERTY Returns
