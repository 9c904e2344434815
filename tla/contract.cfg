SPECIFICATION Spec
CONSTANTS
  number = number
  Values <- CodeOrNumber
  NonStrings <- OnlyNumber
  Names <- OneName
  NewCode = new_code
  None = none
  MaxHops = 2
INVARIANTS OutcomeCrossesUnchanged PortableFormIsKept VariantsSurviveWhoKnowsThem
