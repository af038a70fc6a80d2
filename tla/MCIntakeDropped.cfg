SPECIFICATION Spec
CONSTANTS
  Seeders = {s1, s2}
  TaxonomyReleases <- MCTaxonomyReleases
  IamReleases <- MCIamReleases
  Keys = {"a", "b", "x"}
  NoVersion = NoVersion
  Answers <- MCAnswers
INVARIANT InvalidIsDropped
CHECK_DEADLOCK FALSE
